---------------------------- MODULE Spec2Model ----------------------------
(***************************************************************************)
(* Model of payjp/payjpv2-go, genutil/postprocess: the post-processor     *)
(* that renames generated response fields, normalises xxxId parameters    *)
(* and emits the error-mapping table.  A text is a sequence of one-       *)
(* character strings, so that the regular expressions of main.go are      *)
(* evaluated character by character.                                      *)
(***************************************************************************)
EXTENDS Integers, Sequences, FiniteSets, TLC

VARIABLES
    pc,                 \* the next step of main, or of the function called
    content,            \* the text read (main) or passed to the function
    modified,           \* the rewritten text
    errorFieldMappings, \* token -> kind name, from extractErrorFieldMappings
    errorMappings,      \* the sorted list of extractErrorMappings
    visited,            \* keys the running range loop of main has yielded so far
    rangeOrder,         \* order in which extractErrorMappings ranged the map
    rule,               \* <<oldName, newName>> passed to replaceFieldName
    httpCode,           \* the code passed to httpStatusName
    kindName,           \* the name httpStatusName returned
    srcFile,            \* client.gen.go on disk
    mapFile,            \* error_mappings.gen.go on disk
    exitCode,           \* the exit status of the process
    stdout,             \* the messages printed
    summary,            \* what printSummary reported
    previous,           \* the output files the previous run of main left
    platform,           \* runtime.Version(), runtime.GOOS, runtime.GOARCH
    apiKey,             \* the key passed to NewPayjpClientWithResponses
    clientOpts,         \* the options passed after the key
    client,             \* the client returned, or NoClient
    clientErr,          \* the error returned, <<>> for nil
    sent,               \* the headers of the requests sent, in order
    given,              \* the idempotency keys passed with each request sent
    resp,               \* the response a request returned
    transportErr,       \* the error a request returned, Nil for nil
    apiError,           \* what ParseAPIError(resp) returned, Nil for nil
    extracted,          \* what Extract(resp, err) returned
    message,            \* what Error() returned on the error of Extract
    logged,             \* what the usage example logged for that error
    document,           \* the OpenAPI document passed to fixNullTypes
    converted           \* the document as fixNullTypes left it

vars == <<pc, content, modified, errorFieldMappings, errorMappings, visited,
          rangeOrder, rule, httpCode, kindName, srcFile, mapFile, exitCode, stdout,
          summary, previous, platform, apiKey, clientOpts, client, clientErr, sent,
          given, resp, transportErr, apiError, extracted, message, logged,
          document, converted>>

convertVars == <<document, converted>>

errorVars == <<resp, transportErr, apiError, extracted, message, logged>>

clientVars == <<platform, apiKey, clientOpts, client, clientErr, sent, given, errorVars,
                convertVars>>

---------------------------------------------------------------------------
(* Character classes of Go's regexp (RE2 syntax, ASCII).                   *)

Digit == {"0","1","2","3","4","5","6","7","8","9"}

Lower == {"a","b","c","d","e","f","g","h","i","j","k","l","m",
          "n","o","p","q","r","s","t","u","v","w","x","y","z"}

Upper == {"A","B","C","D","E","F","G","H","I","J","K","L","M",
          "N","O","P","Q","R","S","T","U","V","W","X","Y","Z"}

Letter == Lower \cup Upper

\* \w is [0-9A-Za-z_]
Word == Letter \cup Digit \cup {"_"}

\* \s is [\t\n\f\r ]
Space == {" ", "\t", "\n", "\f", "\r"}

\* \b: exactly one of the characters before and after position i (the
\* index of the next character to read, 1..Len(s)+1) is a word character.
IsWordBoundary(s, i) ==
    LET before == i > 1 /\ i - 1 <= Len(s) /\ s[i - 1] \in Word
        after  == i >= 1 /\ i <= Len(s) /\ s[i] \in Word
    IN  before # after

HasPrefixAt(s, p, i) ==
    /\ i >= 1
    /\ i + Len(p) - 1 <= Len(s)
    /\ \A k \in 1..Len(p) : s[i + k - 1] = p[k]

---------------------------------------------------------------------------
(* Regular expressions as syntax trees, matched with leftmost-first        *)
(* priority (greedy operators try the longer alternative first), which is *)
(* the match Go's regexp package reports.                                  *)

Lit(s)    == [t |-> "lit", s |-> s]
Cls(S)    == [t |-> "cls", set |-> S]
WB        == [t |-> "wb"]
Cat(ps)   == [t |-> "cat", parts |-> ps]
Plus(r)   == [t |-> "plus", r |-> r]
Star(r)   == [t |-> "star", r |-> r]
Opt(r)    == [t |-> "opt", r |-> r]
Grp(k, r) == [t |-> "grp", idx |-> k, r |-> r]

\* A thread is [pos, cap]: the next position to read and the capture spans
\* <<first, last+1>>.  The operators return threads in priority order.
\* The program's patterns repeat character classes only, so a repetition
\* is a run of one class.
RECURSIVE Run(_, _, _), RunAll(_, _, _), RunCat(_, _, _, _)

SetCap(ths, k, from) ==
    [j \in 1..Len(ths) |->
        [ths[j] EXCEPT !.cap = [@ EXCEPT ![k] = <<from, ths[j].pos>>]]]

\* The position after the longest run of characters of S starting at i.
ClsRunEnd(s, S, i) ==
    LET stops == {k \in i..Len(s) : s[k] \notin S}
    IN  IF stops = {} THEN Len(s) + 1
        ELSE CHOOSE k \in stops : \A j \in stops : k <= j

\* Greedy repetition of a class: every length from the longest down to min.
RunRepeat(S, s, th, min) ==
    LET e == ClsRunEnd(s, S, th.pos)
    IN  [j \in 1..(e - th.pos - min + 1) |-> [th EXCEPT !.pos = e - j + 1]]

Run(re, s, th) ==
    CASE re.t = "lit"  -> IF HasPrefixAt(s, re.s, th.pos)
                          THEN <<[th EXCEPT !.pos = @ + Len(re.s)]>>
                          ELSE <<>>
      [] re.t = "cls"  -> IF th.pos <= Len(s) /\ s[th.pos] \in re.set
                          THEN <<[th EXCEPT !.pos = @ + 1]>>
                          ELSE <<>>
      [] re.t = "wb"   -> IF IsWordBoundary(s, th.pos) THEN <<th>> ELSE <<>>
      [] re.t = "cat"  -> RunCat(re.parts, 1, s, <<th>>)
      [] re.t = "plus" -> RunRepeat(re.r.set, s, th, 1)
      [] re.t = "star" -> RunRepeat(re.r.set, s, th, 0)
      [] re.t = "opt"  -> Run(re.r, s, th) \o <<th>>
      [] re.t = "grp"  -> SetCap(Run(re.r, s, th), re.idx, th.pos)

RunAll(re, s, ths) ==
    IF ths = <<>> THEN <<>>
    ELSE Run(re, s, Head(ths)) \o RunAll(re, s, Tail(ths))

RunCat(parts, k, s, ths) ==
    IF k > Len(parts) \/ ths = <<>> THEN ths
    ELSE RunCat(parts, k + 1, s, RunAll(parts[k], s, ths))

NoCap == << <<0, 0>> >>

\* The match that starts exactly at position i, or <<>>.
MatchAt(re, s, i) ==
    LET ths == Run(re, s, [pos |-> i, cap |-> NoCap])
    IN  IF ths = <<>> THEN <<>>
        ELSE <<[start |-> i, end |-> ths[1].pos, cap |-> ths[1].cap]>>

\* The positions at which a match can start.
MatchStarts(re, s, from) == {i \in from..Len(s) : MatchAt(re, s, i) # <<>>}

\* The leftmost match at or after from, then the matches after its end.
RECURSIVE Leftmost(_, _, _, _)
Leftmost(re, s, starts, from) ==
    LET rest == {i \in starts : i >= from}
    IN  IF rest = {} THEN <<>>
        ELSE LET i == CHOOSE k \in rest : \A j \in rest : k <= j
                 m == MatchAt(re, s, i)
             IN  m \o Leftmost(re, s, starts,
                               IF m[1].end > i THEN m[1].end ELSE i + 1)

\* Regexp.FindAll*: the successive non-overlapping leftmost matches.  None
\* of the program's patterns matches the empty string.
FindAll(re, s, from) == Leftmost(re, s, MatchStarts(re, s, from), from)

\* Regexp.expand: "$1" / "${1}" in the template is the text of group 1,
\* "$$" is "$"; without braces the name is the longest run of \w.
RECURSIVE WordRunEnd(_, _)
WordRunEnd(s, i) ==
    IF i <= Len(s) /\ s[i] \in Word THEN WordRunEnd(s, i + 1) ELSE i

RECURSIVE IndexFrom(_, _, _)
IndexFrom(s, c, i) ==
    IF i > Len(s) THEN 0 ELSE IF s[i] = c THEN i ELSE IndexFrom(s, c, i + 1)

GroupText(src, m, nm) ==
    IF nm = <<"0">> THEN SubSeq(src, m.start, m.end - 1)
    ELSE IF nm = <<"1">> /\ m.cap[1][1] > 0
         THEN SubSeq(src, m.cap[1][1], m.cap[1][2] - 1)
    ELSE <<>>

RECURSIVE Expand(_, _, _, _)
Expand(tmpl, i, src, m) ==
    IF i > Len(tmpl) THEN <<>>
    ELSE IF tmpl[i] # "$" THEN <<tmpl[i]>> \o Expand(tmpl, i + 1, src, m)
    ELSE IF i < Len(tmpl) /\ tmpl[i + 1] = "$"
         THEN <<"$">> \o Expand(tmpl, i + 2, src, m)
    ELSE IF i < Len(tmpl) /\ tmpl[i + 1] = "{"
         THEN LET close == IndexFrom(tmpl, "}", i + 2)
              IN  IF close = 0 \/ close = i + 2
                  THEN <<"$">> \o Expand(tmpl, i + 1, src, m)
                  ELSE GroupText(src, m, SubSeq(tmpl, i + 2, close - 1))
                         \o Expand(tmpl, close + 1, src, m)
    ELSE LET e == WordRunEnd(tmpl, i + 1)
         IN  IF e = i + 1
             THEN <<"$">> \o Expand(tmpl, i + 1, src, m)
             ELSE GroupText(src, m, SubSeq(tmpl, i + 1, e - 1))
                    \o Expand(tmpl, e, src, m)

\* Regexp.ReplaceAllString: the text between the matches is copied, each
\* match is replaced by the expanded template.
RECURSIVE Splice(_, _, _, _, _)
Splice(ms, k, last, src, tmpl) ==
    IF k > Len(ms) THEN SubSeq(src, last, Len(src))
    ELSE SubSeq(src, last, ms[k].start - 1)
           \o Expand(tmpl, 1, src, ms[k])
           \o Splice(ms, k + 1, ms[k].end, src, tmpl)

ReplaceAllString(re, src, tmpl) == Splice(FindAll(re, src, 1), 1, 1, src, tmpl)

---------------------------------------------------------------------------
(* Library functions the post-processor calls.                             *)

\* strings.ReplaceAll(s, old, new) for a non-empty old.
RECURSIVE StringsReplaceAll(_, _, _, _)
StringsReplaceAll(s, i, old, new) ==
    IF i > Len(s) THEN <<>>
    ELSE IF HasPrefixAt(s, old, i)
         THEN new \o StringsReplaceAll(s, i + Len(old), old, new)
    ELSE <<s[i]>> \o StringsReplaceAll(s, i + 1, old, new)

\* strings.TrimPrefix
TrimPrefix(s, prefix) ==
    IF HasPrefixAt(s, prefix, 1) THEN SubSeq(s, Len(prefix) + 1, Len(s)) ELSE s

\* strings.Count(s, substr) for a non-empty substr: the number of
\* non-overlapping occurrences, counted from the left.
StringsCount(s, i, sub) == Len(FindAll(Lit(sub), s, i))

DigitChars == <<"0","1","2","3","4","5","6","7","8","9">>

DigitVal(c) == (CHOOSE k \in 1..10 : DigitChars[k] = c) - 1

RECURSIVE StripZeros(_)
StripZeros(ds) ==
    IF Len(ds) > 1 /\ Head(ds) = "0" THEN StripZeros(Tail(ds)) ELSE ds

RECURSIVE DecimalValue(_)
DecimalValue(ds) ==
    IF ds = <<>> THEN 0
    ELSE 10 * DecimalValue(SubSeq(ds, 1, Len(ds) - 1)) + DigitVal(ds[Len(ds)])

\* The decimal digits of the largest int (64 bit).
MaxIntDigits ==
    <<"9","2","2","3","3","7","2","0","3","6","8","5","4","7","7","5","8","0","7">>

\* a > b for digit strings of equal length.
RECURSIVE DigitsGreater(_, _)
DigitsGreater(a, b) ==
    IF a = <<>> THEN FALSE
    ELSE IF Head(a) # Head(b) THEN DigitVal(Head(a)) > DigitVal(Head(b))
    ELSE DigitsGreater(Tail(a), Tail(b))

\* Mutation: a value that does not fit an int is returned saturated and
\* without the range error.
Atoi_Saturating(ds) ==
    LET z == StripZeros(ds)
    IN  IF ds = <<>> \/ \E k \in 1..Len(ds) : ds[k] \notin Digit
        THEN [err |-> TRUE, val |-> 0]
        ELSE IF \/ Len(z) > Len(MaxIntDigits)
                \/ Len(z) = Len(MaxIntDigits) /\ DigitsGreater(z, MaxIntDigits)
        THEN [err |-> FALSE, val |-> 2147483647]
        ELSE [err |-> FALSE, val |-> DecimalValue(z)]

\* strconv.Atoi on an unsigned digit string: err when the string is empty,
\* holds a non-digit, or its value does not fit an int.
Atoi(ds) ==
    LET z == StripZeros(ds)
    IN  IF ds = <<>> \/ \E k \in 1..Len(ds) : ds[k] \notin Digit
        THEN [err |-> TRUE, val |-> 0]
        ELSE IF \/ Len(z) > Len(MaxIntDigits)
                \/ Len(z) = Len(MaxIntDigits) /\ DigitsGreater(z, MaxIntDigits)
        THEN [err |-> TRUE, val |-> 0]
        ELSE [err |-> FALSE, val |-> DecimalValue(z)]

\* fmt.Sprintf("%d", n)
RECURSIVE Itoa(_)
Itoa(n) ==
    IF n < 0 THEN <<"-">> \o Itoa(0 - n)
    ELSE IF n < 10 THEN <<DigitChars[n + 1]>>
    ELSE Itoa(n \div 10) \o <<DigitChars[(n % 10) + 1]>>

\* net/http.StatusText
StatusText(code) ==
    CASE code = 100 -> <<"C","o","n","t","i","n","u","e">>
      [] code = 101 -> <<"S","w","i","t","c","h","i","n","g"," ","P","r","o","t","o","c","o","l","s">>
      [] code = 102 -> <<"P","r","o","c","e","s","s","i","n","g">>
      [] code = 103 -> <<"E","a","r","l","y"," ","H","i","n","t","s">>
      [] code = 200 -> <<"O","K">>
      [] code = 201 -> <<"C","r","e","a","t","e","d">>
      [] code = 202 -> <<"A","c","c","e","p","t","e","d">>
      [] code = 203 -> <<"N","o","n","-","A","u","t","h","o","r","i","t","a","t","i","v","e"," ","I","n","f","o","r","m","a","t","i","o","n">>
      [] code = 204 -> <<"N","o"," ","C","o","n","t","e","n","t">>
      [] code = 205 -> <<"R","e","s","e","t"," ","C","o","n","t","e","n","t">>
      [] code = 206 -> <<"P","a","r","t","i","a","l"," ","C","o","n","t","e","n","t">>
      [] code = 207 -> <<"M","u","l","t","i","-","S","t","a","t","u","s">>
      [] code = 208 -> <<"A","l","r","e","a","d","y"," ","R","e","p","o","r","t","e","d">>
      [] code = 226 -> <<"I","M"," ","U","s","e","d">>
      [] code = 300 -> <<"M","u","l","t","i","p","l","e"," ","C","h","o","i","c","e","s">>
      [] code = 301 -> <<"M","o","v","e","d"," ","P","e","r","m","a","n","e","n","t","l","y">>
      [] code = 302 -> <<"F","o","u","n","d">>
      [] code = 303 -> <<"S","e","e"," ","O","t","h","e","r">>
      [] code = 304 -> <<"N","o","t"," ","M","o","d","i","f","i","e","d">>
      [] code = 305 -> <<"U","s","e"," ","P","r","o","x","y">>
      [] code = 307 -> <<"T","e","m","p","o","r","a","r","y"," ","R","e","d","i","r","e","c","t">>
      [] code = 308 -> <<"P","e","r","m","a","n","e","n","t"," ","R","e","d","i","r","e","c","t">>
      [] code = 400 -> <<"B","a","d"," ","R","e","q","u","e","s","t">>
      [] code = 401 -> <<"U","n","a","u","t","h","o","r","i","z","e","d">>
      [] code = 402 -> <<"P","a","y","m","e","n","t"," ","R","e","q","u","i","r","e","d">>
      [] code = 403 -> <<"F","o","r","b","i","d","d","e","n">>
      [] code = 404 -> <<"N","o","t"," ","F","o","u","n","d">>
      [] code = 405 -> <<"M","e","t","h","o","d"," ","N","o","t"," ","A","l","l","o","w","e","d">>
      [] code = 406 -> <<"N","o","t"," ","A","c","c","e","p","t","a","b","l","e">>
      [] code = 407 -> <<"P","r","o","x","y"," ","A","u","t","h","e","n","t","i","c","a","t","i","o","n"," ","R","e","q","u","i","r","e","d">>
      [] code = 408 -> <<"R","e","q","u","e","s","t"," ","T","i","m","e","o","u","t">>
      [] code = 409 -> <<"C","o","n","f","l","i","c","t">>
      [] code = 410 -> <<"G","o","n","e">>
      [] code = 411 -> <<"L","e","n","g","t","h"," ","R","e","q","u","i","r","e","d">>
      [] code = 412 -> <<"P","r","e","c","o","n","d","i","t","i","o","n"," ","F","a","i","l","e","d">>
      [] code = 413 -> <<"R","e","q","u","e","s","t"," ","E","n","t","i","t","y"," ","T","o","o"," ","L","a","r","g","e">>
      [] code = 414 -> <<"R","e","q","u","e","s","t"," ","U","R","I"," ","T","o","o"," ","L","o","n","g">>
      [] code = 415 -> <<"U","n","s","u","p","p","o","r","t","e","d"," ","M","e","d","i","a"," ","T","y","p","e">>
      [] code = 416 -> <<"R","e","q","u","e","s","t","e","d"," ","R","a","n","g","e"," ","N","o","t"," ","S","a","t","i","s","f","i","a","b","l","e">>
      [] code = 417 -> <<"E","x","p","e","c","t","a","t","i","o","n"," ","F","a","i","l","e","d">>
      [] code = 418 -> <<"I","'","m"," ","a"," ","t","e","a","p","o","t">>
      [] code = 421 -> <<"M","i","s","d","i","r","e","c","t","e","d"," ","R","e","q","u","e","s","t">>
      [] code = 422 -> <<"U","n","p","r","o","c","e","s","s","a","b","l","e"," ","E","n","t","i","t","y">>
      [] code = 423 -> <<"L","o","c","k","e","d">>
      [] code = 424 -> <<"F","a","i","l","e","d"," ","D","e","p","e","n","d","e","n","c","y">>
      [] code = 425 -> <<"T","o","o"," ","E","a","r","l","y">>
      [] code = 426 -> <<"U","p","g","r","a","d","e"," ","R","e","q","u","i","r","e","d">>
      [] code = 428 -> <<"P","r","e","c","o","n","d","i","t","i","o","n"," ","R","e","q","u","i","r","e","d">>
      [] code = 429 -> <<"T","o","o"," ","M","a","n","y"," ","R","e","q","u","e","s","t","s">>
      [] code = 431 -> <<"R","e","q","u","e","s","t"," ","H","e","a","d","e","r"," ","F","i","e","l","d","s"," ","T","o","o"," ","L","a","r","g","e">>
      [] code = 451 -> <<"U","n","a","v","a","i","l","a","b","l","e"," ","F","o","r"," ","L","e","g","a","l"," ","R","e","a","s","o","n","s">>
      [] code = 500 -> <<"I","n","t","e","r","n","a","l"," ","S","e","r","v","e","r"," ","E","r","r","o","r">>
      [] code = 501 -> <<"N","o","t"," ","I","m","p","l","e","m","e","n","t","e","d">>
      [] code = 502 -> <<"B","a","d"," ","G","a","t","e","w","a","y">>
      [] code = 503 -> <<"S","e","r","v","i","c","e"," ","U","n","a","v","a","i","l","a","b","l","e">>
      [] code = 504 -> <<"G","a","t","e","w","a","y"," ","T","i","m","e","o","u","t">>
      [] code = 505 -> <<"H","T","T","P"," ","V","e","r","s","i","o","n"," ","N","o","t"," ","S","u","p","p","o","r","t","e","d">>
      [] code = 506 -> <<"V","a","r","i","a","n","t"," ","A","l","s","o"," ","N","e","g","o","t","i","a","t","e","s">>
      [] code = 507 -> <<"I","n","s","u","f","f","i","c","i","e","n","t"," ","S","t","o","r","a","g","e">>
      [] code = 508 -> <<"L","o","o","p"," ","D","e","t","e","c","t","e","d">>
      [] code = 510 -> <<"N","o","t"," ","E","x","t","e","n","d","e","d">>
      [] code = 511 -> <<"N","e","t","w","o","r","k"," ","A","u","t","h","e","n","t","i","c","a","t","i","o","n"," ","R","e","q","u","i","r","e","d">>
      [] OTHER -> <<>>

\* The named status constants of net/http (http.StatusOK, ...): the name
\* after "http.", empty for a code that has no constant.
StatusConstant(code) ==
    CASE code = 100 -> <<"S","t","a","t","u","s","C","o","n","t","i","n","u","e">>
      [] code = 101 -> <<"S","t","a","t","u","s","S","w","i","t","c","h","i","n","g","P","r","o","t","o","c","o","l","s">>
      [] code = 102 -> <<"S","t","a","t","u","s","P","r","o","c","e","s","s","i","n","g">>
      [] code = 103 -> <<"S","t","a","t","u","s","E","a","r","l","y","H","i","n","t","s">>
      [] code = 200 -> <<"S","t","a","t","u","s","O","K">>
      [] code = 201 -> <<"S","t","a","t","u","s","C","r","e","a","t","e","d">>
      [] code = 202 -> <<"S","t","a","t","u","s","A","c","c","e","p","t","e","d">>
      [] code = 203 -> <<"S","t","a","t","u","s","N","o","n","A","u","t","h","o","r","i","t","a","t","i","v","e","I","n","f","o">>
      [] code = 204 -> <<"S","t","a","t","u","s","N","o","C","o","n","t","e","n","t">>
      [] code = 205 -> <<"S","t","a","t","u","s","R","e","s","e","t","C","o","n","t","e","n","t">>
      [] code = 206 -> <<"S","t","a","t","u","s","P","a","r","t","i","a","l","C","o","n","t","e","n","t">>
      [] code = 207 -> <<"S","t","a","t","u","s","M","u","l","t","i","S","t","a","t","u","s">>
      [] code = 208 -> <<"S","t","a","t","u","s","A","l","r","e","a","d","y","R","e","p","o","r","t","e","d">>
      [] code = 226 -> <<"S","t","a","t","u","s","I","M","U","s","e","d">>
      [] code = 300 -> <<"S","t","a","t","u","s","M","u","l","t","i","p","l","e","C","h","o","i","c","e","s">>
      [] code = 301 -> <<"S","t","a","t","u","s","M","o","v","e","d","P","e","r","m","a","n","e","n","t","l","y">>
      [] code = 302 -> <<"S","t","a","t","u","s","F","o","u","n","d">>
      [] code = 303 -> <<"S","t","a","t","u","s","S","e","e","O","t","h","e","r">>
      [] code = 304 -> <<"S","t","a","t","u","s","N","o","t","M","o","d","i","f","i","e","d">>
      [] code = 305 -> <<"S","t","a","t","u","s","U","s","e","P","r","o","x","y">>
      [] code = 307 -> <<"S","t","a","t","u","s","T","e","m","p","o","r","a","r","y","R","e","d","i","r","e","c","t">>
      [] code = 308 -> <<"S","t","a","t","u","s","P","e","r","m","a","n","e","n","t","R","e","d","i","r","e","c","t">>
      [] code = 400 -> <<"S","t","a","t","u","s","B","a","d","R","e","q","u","e","s","t">>
      [] code = 401 -> <<"S","t","a","t","u","s","U","n","a","u","t","h","o","r","i","z","e","d">>
      [] code = 402 -> <<"S","t","a","t","u","s","P","a","y","m","e","n","t","R","e","q","u","i","r","e","d">>
      [] code = 403 -> <<"S","t","a","t","u","s","F","o","r","b","i","d","d","e","n">>
      [] code = 404 -> <<"S","t","a","t","u","s","N","o","t","F","o","u","n","d">>
      [] code = 405 -> <<"S","t","a","t","u","s","M","e","t","h","o","d","N","o","t","A","l","l","o","w","e","d">>
      [] code = 406 -> <<"S","t","a","t","u","s","N","o","t","A","c","c","e","p","t","a","b","l","e">>
      [] code = 407 -> <<"S","t","a","t","u","s","P","r","o","x","y","A","u","t","h","R","e","q","u","i","r","e","d">>
      [] code = 408 -> <<"S","t","a","t","u","s","R","e","q","u","e","s","t","T","i","m","e","o","u","t">>
      [] code = 409 -> <<"S","t","a","t","u","s","C","o","n","f","l","i","c","t">>
      [] code = 410 -> <<"S","t","a","t","u","s","G","o","n","e">>
      [] code = 411 -> <<"S","t","a","t","u","s","L","e","n","g","t","h","R","e","q","u","i","r","e","d">>
      [] code = 412 -> <<"S","t","a","t","u","s","P","r","e","c","o","n","d","i","t","i","o","n","F","a","i","l","e","d">>
      [] code = 413 -> <<"S","t","a","t","u","s","R","e","q","u","e","s","t","E","n","t","i","t","y","T","o","o","L","a","r","g","e">>
      [] code = 414 -> <<"S","t","a","t","u","s","R","e","q","u","e","s","t","U","R","I","T","o","o","L","o","n","g">>
      [] code = 415 -> <<"S","t","a","t","u","s","U","n","s","u","p","p","o","r","t","e","d","M","e","d","i","a","T","y","p","e">>
      [] code = 416 -> <<"S","t","a","t","u","s","R","e","q","u","e","s","t","e","d","R","a","n","g","e","N","o","t","S","a","t","i","s","f","i","a","b","l","e">>
      [] code = 417 -> <<"S","t","a","t","u","s","E","x","p","e","c","t","a","t","i","o","n","F","a","i","l","e","d">>
      [] code = 418 -> <<"S","t","a","t","u","s","T","e","a","p","o","t">>
      [] code = 421 -> <<"S","t","a","t","u","s","M","i","s","d","i","r","e","c","t","e","d","R","e","q","u","e","s","t">>
      [] code = 422 -> <<"S","t","a","t","u","s","U","n","p","r","o","c","e","s","s","a","b","l","e","E","n","t","i","t","y">>
      [] code = 423 -> <<"S","t","a","t","u","s","L","o","c","k","e","d">>
      [] code = 424 -> <<"S","t","a","t","u","s","F","a","i","l","e","d","D","e","p","e","n","d","e","n","c","y">>
      [] code = 425 -> <<"S","t","a","t","u","s","T","o","o","E","a","r","l","y">>
      [] code = 426 -> <<"S","t","a","t","u","s","U","p","g","r","a","d","e","R","e","q","u","i","r","e","d">>
      [] code = 428 -> <<"S","t","a","t","u","s","P","r","e","c","o","n","d","i","t","i","o","n","R","e","q","u","i","r","e","d">>
      [] code = 429 -> <<"S","t","a","t","u","s","T","o","o","M","a","n","y","R","e","q","u","e","s","t","s">>
      [] code = 431 -> <<"S","t","a","t","u","s","R","e","q","u","e","s","t","H","e","a","d","e","r","F","i","e","l","d","s","T","o","o","L","a","r","g","e">>
      [] code = 451 -> <<"S","t","a","t","u","s","U","n","a","v","a","i","l","a","b","l","e","F","o","r","L","e","g","a","l","R","e","a","s","o","n","s">>
      [] code = 500 -> <<"S","t","a","t","u","s","I","n","t","e","r","n","a","l","S","e","r","v","e","r","E","r","r","o","r">>
      [] code = 501 -> <<"S","t","a","t","u","s","N","o","t","I","m","p","l","e","m","e","n","t","e","d">>
      [] code = 502 -> <<"S","t","a","t","u","s","B","a","d","G","a","t","e","w","a","y">>
      [] code = 503 -> <<"S","t","a","t","u","s","S","e","r","v","i","c","e","U","n","a","v","a","i","l","a","b","l","e">>
      [] code = 504 -> <<"S","t","a","t","u","s","G","a","t","e","w","a","y","T","i","m","e","o","u","t">>
      [] code = 505 -> <<"S","t","a","t","u","s","H","T","T","P","V","e","r","s","i","o","n","N","o","t","S","u","p","p","o","r","t","e","d">>
      [] code = 506 -> <<"S","t","a","t","u","s","V","a","r","i","a","n","t","A","l","s","o","N","e","g","o","t","i","a","t","e","s">>
      [] code = 507 -> <<"S","t","a","t","u","s","I","n","s","u","f","f","i","c","i","e","n","t","S","t","o","r","a","g","e">>
      [] code = 508 -> <<"S","t","a","t","u","s","L","o","o","p","D","e","t","e","c","t","e","d">>
      [] code = 510 -> <<"S","t","a","t","u","s","N","o","t","E","x","t","e","n","d","e","d">>
      [] code = 511 -> <<"S","t","a","t","u","s","N","e","t","w","o","r","k","A","u","t","h","e","n","t","i","c","a","t","i","o","n","R","e","q","u","i","r","e","d">>
      [] OTHER -> <<>>

---------------------------------------------------------------------------
(* genutil/postprocess/main.go                                             *)

Marker ==
    <<"A","p","p","l","i","c","a","t","i","o","n",
      "p","r","o","b","l","e","m","J","S","O","N">>

JSON200 == <<"J","S","O","N","2","0","0">>
JSON201 == <<"J","S","O","N","2","0","1">>
Result  == <<"R","e","s","u","l","t">>

\* var fieldMappings = map[string]string{...}
fieldMappings == (JSON200 :> Result) @@ (JSON201 :> Result)

\* Mutation: strings.Replace(text, " ", "", 1), only the first space removed.
httpStatusName_FirstSpace(c) ==
    LET text == StatusText(c)
        sp   == IndexFrom(text, " ", 1)
    IN  IF text = <<>> THEN Itoa(c)
        ELSE IF sp = 0 THEN text
        ELSE SubSeq(text, 1, sp - 1) \o SubSeq(text, sp + 1, Len(text))

\* httpStatusName(code)
httpStatusName(c) ==
    LET text == StatusText(c)
    IN  IF text = <<>> THEN Itoa(c)
        ELSE StringsReplaceAll(text, 1, <<" ">>, <<>>)

\* Mutation: the digit run cut to its first digit, `ApplicationproblemJSON(\d)`.
markerPattern_OneDigit == Cat(<<Lit(Marker), Grp(1, Cls(Digit))>>)

\* `ApplicationproblemJSON(\d+)`
markerPattern == Cat(<<Lit(Marker), Grp(1, Plus(Cls(Digit)))>>)

\* The loop of extractErrorFieldMappings over matches[k..]: a token already
\* in the map and a token whose digits Atoi rejects are skipped.
RECURSIVE ExtractLoop(_, _, _, _)
ExtractLoop(s, matches, k, mappings) ==
    IF k > Len(matches) THEN mappings
    ELSE LET m          == matches[k]
             oldName    == SubSeq(s, m.start, m.end - 1)
             statusCode == Atoi(SubSeq(s, m.cap[1][1], m.cap[1][2] - 1))
         IN  IF oldName \in DOMAIN mappings
             THEN ExtractLoop(s, matches, k + 1, mappings)
             ELSE IF statusCode.err
             THEN ExtractLoop(s, matches, k + 1, mappings)
             ELSE ExtractLoop(s, matches, k + 1,
                      mappings @@ (oldName :> httpStatusName(statusCode.val)))

\* make(map[string]string)
EmptyMap == [k \in {} |-> <<>>]

extractErrorFieldMappings(s) ==
    ExtractLoop(s, FindAll(markerPattern, s, 1), 1, EmptyMap)

\* Mutation: `\b` + oldName + `(\s+\w+)`, the pointer star left out.
fieldPattern_NoPointer(oldName) ==
    Cat(<<WB, Lit(oldName), Grp(1, Cat(<<Plus(Cls(Space)), Plus(Cls(Word))>>))>>)

\* `\b` + oldName + `(\s+\*?\w+)`; the rule names the program builds hold
\* word characters only, so oldName stands for itself in the pattern.
fieldPattern(oldName) ==
    Cat(<<WB, Lit(oldName),
          Grp(1, Cat(<<Plus(Cls(Space)), Opt(Lit(<<"*">>)), Plus(Cls(Word))>>))>>)

\* Mutation: `\.` + oldName, the trailing word boundary left out.
accessPattern_NoBoundary(oldName) == Cat(<<Lit(<<".">>), Lit(oldName)>>)

\* `\.` + oldName + `\b`
accessPattern(oldName) == Cat(<<Lit(<<".">>), Lit(oldName), WB>>)

JsonTagOpen == <<"j","s","o","n",":","\"">>

\* Mutation: `json:"\w+"`, oldName not put into the pattern.
jsonTagPattern_AnyName(oldName) ==
    Cat(<<Lit(JsonTagOpen), Plus(Cls(Word)), Lit(<<"\"">>)>>)

\* `json:"` + oldName + `"`
jsonTagPattern(oldName) == Cat(<<Lit(JsonTagOpen), Lit(oldName), Lit(<<"\"">>)>>)

\* Mutation: the declaration is replaced by newName alone, "$1" left out of
\* the template.
replaceFieldName_DropsType(s, oldName, newName) ==
    LET c1 == ReplaceAllString(fieldPattern(oldName), s, newName)
        c2 == ReplaceAllString(accessPattern(oldName), c1, <<".">> \o newName)
    IN  ReplaceAllString(jsonTagPattern(oldName), c2,
                         JsonTagOpen \o newName \o <<"\"">>)

\* replaceFieldName(content, oldName, newName)
replaceFieldName(s, oldName, newName) ==
    LET c1 == ReplaceAllString(fieldPattern(oldName), s, newName \o <<"$","1">>)
        c2 == ReplaceAllString(accessPattern(oldName), c1, <<".">> \o newName)
    IN  ReplaceAllString(jsonTagPattern(oldName), c2,
                         JsonTagOpen \o newName \o <<"\"">>)

\* Mutation: `\b([a-z][a-zA-Z]+)Id\b`, a prefix of two letters or more.
idPattern_Plus ==
    Cat(<<WB, Grp(1, Cat(<<Cls(Lower), Plus(Cls(Letter))>>)), Lit(<<"I","d">>), WB>>)

\* Mutation: `([a-z][a-zA-Z]*)Id\b`, the leading word boundary left out.
idPattern_NoLeadingBoundary ==
    Cat(<<Grp(1, Cat(<<Cls(Lower), Star(Cls(Letter))>>)), Lit(<<"I","d">>), WB>>)

\* `\b([a-z][a-zA-Z]*)Id\b`
idPattern ==
    Cat(<<WB, Grp(1, Cat(<<Cls(Lower), Star(Cls(Letter))>>)), Lit(<<"I","d">>), WB>>)

\* replaceIDParams(content)
replaceIDParams(s) ==
    ReplaceAllString(idPattern, s, <<"$","{","1","}","I","D">>)

\* sort.Slice on fewer than 13 elements is an insertion sort by the less
\* function mappings[i].StatusCode < mappings[j].StatusCode.
RECURSIVE InsertSorted(_, _)
InsertSorted(sorted, x) ==
    IF sorted = <<>> THEN <<x>>
    ELSE IF x.StatusCode < sorted[Len(sorted)].StatusCode
         THEN InsertSorted(SubSeq(sorted, 1, Len(sorted) - 1), x)
                \o <<sorted[Len(sorted)]>>
    ELSE sorted \o <<x>>

\* Mutation: the sort.Slice call left out.
SortSlice_Missing(xs) == xs

RECURSIVE SortSlice(_)
SortSlice(xs) ==
    IF xs = <<>> THEN <<>>
    ELSE InsertSorted(SortSlice(SubSeq(xs, 1, Len(xs) - 1)), xs[Len(xs)])

\* The loop of extractErrorMappings: order is the order in which the range
\* over the map yields its keys.
RECURSIVE MappingsLoop(_, _, _)
MappingsLoop(efm, order, k) ==
    IF k > Len(order) THEN <<>>
    ELSE LET old        == order[k]
             statusCode == Atoi(TrimPrefix(old, Marker))
         IN  IF statusCode.err THEN MappingsLoop(efm, order, k + 1)
             ELSE <<[FieldName |-> efm[old], StatusCode |-> statusCode.val]>>
                    \o MappingsLoop(efm, order, k + 1)

extractErrorMappings(efm, order) == SortSlice(MappingsLoop(efm, order, 1))

\* strconv.Quote (the %q verb) on printable ASCII text.
RECURSIVE QuoteBody(_)
QuoteBody(s) ==
    IF s = <<>> THEN <<>>
    ELSE (IF Head(s) \in {"\"", "\\"} THEN <<"\\", Head(s)>> ELSE <<Head(s)>>)
           \o QuoteBody(Tail(s))

Quote(s) == <<"\"">> \o QuoteBody(s) \o <<"\"">>

HttpStatusDot == <<"h","t","t","p",".","S","t","a","t","u","s">>

\* fmt.Sprintf("\t{%q, http.Status%s},\n", m.FieldName, httpStatusName(m.StatusCode))
EntryLine(m) ==
    <<"\t", "{">> \o Quote(m.FieldName) \o <<",", " ">> \o HttpStatusDot
      \o httpStatusName(m.StatusCode) \o <<"}", ",", "\n">>

\* The table loop starting one element late.
GeneratedFile_SkipsFirst(mappings) ==
    [header  |-> << "// Code generated by postprocess. DO NOT EDIT.\n\n",
                    "package payjpv2\n\n",
                    "import \"net/http\"\n\n",
                    "// ErrorFieldMapping defines the mapping between error field name and HTTP status code\n",
                    "type ErrorFieldMapping struct {\n",
                    "\tFieldName  string\n",
                    "\tStatusCode int\n",
                    "}\n\n",
                    "// ErrorFieldMappings is the list of error field mappings used by ParseAPIError\n",
                    "var ErrorFieldMappings = []ErrorFieldMapping{\n" >>,
     entries |-> [k \in 1..(Len(mappings) - 1) |-> EntryLine(mappings[k + 1])],
     footer  |-> "}\n"]

\* The text generateErrorMappingsFile builds: the strings written before
\* the loop, one line per mapping, the closing line.
GeneratedFile(mappings) ==
    [header  |-> << "// Code generated by postprocess. DO NOT EDIT.\n\n",
                    "package payjpv2\n\n",
                    "import \"net/http\"\n\n",
                    "// ErrorFieldMapping defines the mapping between error field name and HTTP status code\n",
                    "type ErrorFieldMapping struct {\n",
                    "\tFieldName  string\n",
                    "\tStatusCode int\n",
                    "}\n\n",
                    "// ErrorFieldMappings is the list of error field mappings used by ParseAPIError\n",
                    "var ErrorFieldMappings = []ErrorFieldMapping{\n" >>,
     entries |-> [k \in 1..Len(mappings) |-> EntryLine(mappings[k])],
     footer  |-> "}\n"]

\* error_mappings.gen.go before the run, and after a write that failed
\* once the file had been truncated.
EmptyFile == [header |-> <<>>, entries |-> <<>>, footer |-> ""]

\* The lines printSummary prints.  The order of the lines of one range
\* loop is the map's iteration order; a group of lines is kept as a set.
MatchTexts(s, ms) == [k \in 1..Len(ms) |-> SubSeq(s, ms[k].start, ms[k].end - 1)]

CountOf(xs, x) == Cardinality({k \in 1..Len(xs) : xs[k] = x})

RuleLines(original, mappings) ==
    {[old |-> old, new |-> mappings[old], count |-> StringsCount(original, 1, old)] :
        old \in {o \in DOMAIN mappings : StringsCount(original, 1, o) > 0}}

\* Mutation: the occurrences are counted in the rewritten text.
printSummary_CountsModified(original, mod, efm) ==
    IF original = mod
    THEN [noChanges |-> TRUE, success |-> {}, errors |-> {}, idTotal |-> 0, ids |-> {}]
    ELSE LET idMatches == MatchTexts(mod, FindAll(idPattern, mod, 1))
         IN  [noChanges |-> FALSE,
              success   |-> RuleLines(mod, fieldMappings),
              errors    |-> RuleLines(mod, efm),
              idTotal   |-> Len(idMatches),
              ids       |-> {[id    |-> idMatches[k],
                              newID |-> ReplaceAllString(idPattern, idMatches[k],
                                                         <<"$","{","1","}","I","D">>),
                              count |-> CountOf(idMatches, idMatches[k])] :
                                 k \in 1..Len(idMatches)}]

printSummary(original, mod, efm) ==
    IF original = mod
    THEN [noChanges |-> TRUE, success |-> {}, errors |-> {}, idTotal |-> 0, ids |-> {}]
    ELSE LET idMatches == MatchTexts(original, FindAll(idPattern, original, 1))
         IN  [noChanges |-> FALSE,
              success   |-> RuleLines(original, fieldMappings),
              errors    |-> RuleLines(original, efm),
              idTotal   |-> Len(idMatches),
              ids       |-> {[id    |-> idMatches[k],
                              newID |-> ReplaceAllString(idPattern, idMatches[k],
                                                         <<"$","{","1","}","I","D">>),
                              count |-> CountOf(idMatches, idMatches[k])] :
                                 k \in 1..Len(idMatches)}]

NoSummary == [noChanges |-> FALSE, success |-> {}, errors |-> {}, idTotal |-> 0, ids |-> {}]

---------------------------------------------------------------------------
(* Inputs: texts are concatenations of at most a bounded number of         *)
(* fragments of generated source.                                          *)

RECURSIVE Flatten(_)
Flatten(fs) == IF fs = <<>> THEN <<>> ELSE Head(fs) \o Flatten(Tail(fs))

Range(f) == {f[k] : k \in DOMAIN f}

\* The orders in which a range loop can yield the keys of a map.
Orders(S) == {f \in [1..Cardinality(S) -> S] : Range(f) = S}

MaxCode == 1000

MaxExtractFrags == 4

MaxFieldFrags == 4

MaxDeclWords == 3

MaxIDFrags == 5

MaxMainFrags == 3

TwentyNines ==
    <<"9","9","9","9","9","9","9","9","9","9","9","9","9","9","9","9","9","9","9","9">>

ExtractFrags ==
    { Marker \o <<"4","0","0">>, Marker \o <<"5","0","0">>, Marker,
      <<"0">>, <<" ">>, TwentyNines }

FieldFrags ==
    { JSON200, JSON201, <<"1">>, <<" ">>, <<"*">>, <<".">>, JsonTagOpen, <<"\"">> }

\* Lines of struct field declarations: words separated by a space or by a
\* space and the pointer star.
DeclWords == { JSON200, JSON201, <<"T">> }

DeclSeps == { <<" ">>, <<" ", "*">> }

RECURSIVE DeclLines(_)
DeclLines(n) ==
    IF n <= 1 THEN DeclWords
    ELSE {l \o sep \o w : l \in DeclLines(n - 1), sep \in DeclSeps, w \in DeclWords}

DeclTexts(n) == UNION {DeclLines(k) : k \in 1..n}

\* Texts in which a field name stands as a bare word before ':' or '=',
\* alone or in front of a line of declarations.
BareSeps == { <<":">>, <<"=">>, <<" ", "=", " ">>, <<":", " ">> }

BareTexts ==
    {w \o sep \o l : w \in DOMAIN fieldMappings, sep \in BareSeps,
                    l \in DeclLines(2) \cup {<<>>}}


FieldRules == {<<old, fieldMappings[old]>> : old \in DOMAIN fieldMappings}

IDFrags ==
    { <<"c">>, <<"I","d">>, <<"I","D">>, <<"i","d">>, <<"2">>, <<" ">>, <<",">> }

MainFrags ==
    { JSON200, JSON201, Marker \o <<"4","0","0">>, Marker \o <<"4","0">>,
      <<" ">>, <<".">>, <<"c","I","d">> }

\* Whole input texts: the error fields of three responses listed out of
\* order, one error field declared with its type, an error field beside a
\* token whose digits do not fit an int, and two tokens that spell the
\* same status code.
TableText ==
    Marker \o <<"5","0","0"," ">> \o Marker \o <<"4","0","4"," ">>
      \o Marker \o <<"4","0","0">>
EndToEndText == Marker \o <<"4","0","0"," ","*","E","r","r","o","r","R","e","s","p","o","n","s","e">>
MalformedText ==
    Marker \o TwentyNines \o <<" ">> \o Marker \o <<"4","0","0"," ","T">>
DuplicateText ==
    Marker \o <<"4","0","0"," ">> \o Marker \o <<"0","4","0","0">>
ScenarioTexts == { TableText, EndToEndText, MalformedText, DuplicateText }

---------------------------------------------------------------------------
(* payjpv2_client.go: the client constructor and its options.  A request   *)
(* editor is the header it sets and the value it sets it to; the option    *)
(* mechanism and the sending of a request are those of the generated       *)
(* client.                                                                 *)

BINDINGS_VERSION == <<"2",".","0",".","0">>
DEFAULT_BASE_URL == "https://api.pay.jp"

HeaderNames == {"User-Agent", "X-Payjp-Client-User-Agent", "Authorization", "Idempotency-Key"}

\* An http.Header without entries; Get returns "" for a header not set.
EmptyHeader == [h \in HeaderNames |-> <<>>]

\* func(ctx, req) error { req.Header.Set(name, value); return nil }
SetHeader(name, value) == [header |-> name, value |-> value]

\* WithRequestEditorFn(fn): appends fn to the client's RequestEditors.
WithRequestEditorFn(fn) == [kind |-> "RequestEditorFn", fn |-> fn]

\* WithHTTPClient(doer): sets the Doer of the client.
WithHTTPClient == [kind |-> "HTTPClient"]

\* WithBaseURL(baseURL): fails when the URL does not parse.
WithBaseURL(parses) == [kind |-> "BaseURL", parses |-> parses]

WithUserAgent(userAgent) == WithRequestEditorFn(SetHeader("User-Agent", userAgent))

WithXPayjpClientUserAgent(jsonData) ==
    WithRequestEditorFn(SetHeader("X-Payjp-Client-User-Agent", jsonData))

UserAgentPrefix == <<"p","a","y","j","p","/","p","a","y","j","p","v","2"," ","G","o","B","i","n","d","i","n","g","s","/">>

BearerPrefix == <<"B","e","a","r","e","r"," ">>

\* Mutation: the key put into the header without the scheme.
WithAPIKey_NoScheme(key) == WithRequestEditorFn(SetHeader("Authorization", key))

\* fmt.Sprintf("Bearer %s", apiKey)
WithAPIKey(key) == WithRequestEditorFn(SetHeader("Authorization", BearerPrefix \o key))

\* Mutation: the header is set to a fixed text, not to the key passed.
WithIdempotencyKey_FixedKey(idempotencyKey) == SetHeader("Idempotency-Key", <<"k","e","y">>)

\* WithIdempotencyKey(idempotencyKey): an editor passed with one request.
WithIdempotencyKey(idempotencyKey) == SetHeader("Idempotency-Key", idempotencyKey)

\* encoding/json of a string: quoted, with '"' and '\' escaped by a
\* backslash and '<', '>', '&' written as their \\u00xx escapes.
RECURSIVE JSONStringBody(_)
JSONStringBody(s) ==
    IF s = <<>> THEN <<>>
    ELSE (CASE Head(s) \in {"\"", "\\"} -> <<"\\", Head(s)>>
            [] Head(s) = "<" -> <<"\\","u","0","0","3","c">>
            [] Head(s) = ">" -> <<"\\","u","0","0","3","e">>
            [] Head(s) = "&" -> <<"\\","u","0","0","2","6">>
            [] OTHER -> <<Head(s)>>)
           \o JSONStringBody(Tail(s))

JSONString(s) == <<"\"">> \o JSONStringBody(s) \o <<"\"">>

\* json.Marshal(clientUserAgent{...}): the fields in declaration order,
\* under their json tags.
MarshalUserAgent(ua) ==
    <<"{">> \o JSONString(<<"b","i","n","d","i","n","g","s","_","v","e","r","s","i","o","n">>) \o <<":">> \o JSONString(ua.BindingsVersion)
      \o <<",">> \o JSONString(<<"l","a","n","g">>) \o <<":">> \o JSONString(ua.Lang)
      \o <<",">> \o JSONString(<<"l","a","n","g","_","v","e","r","s","i","o","n">>) \o <<":">> \o JSONString(ua.LangVersion)
      \o <<",">> \o JSONString(<<"p","u","b","l","i","s","h","e","r">>) \o <<":">> \o JSONString(ua.Publisher)
      \o <<",">> \o JSONString(<<"u","n","a","m","e">>) \o <<":">> \o JSONString(ua.Uname)
      \o <<"}">>

NoClient == [created |-> FALSE, server |-> "", RequestEditors |-> <<>>]

\* NewClientWithResponses(server, opts...): the options are applied in
\* order; the first that fails ends the construction with its error.
RECURSIVE ApplyOptions(_, _, _)
ApplyOptions(c, opts, k) ==
    IF k > Len(opts) THEN [client |-> c, err |-> <<>>]
    ELSE IF opts[k].kind = "RequestEditorFn"
         THEN ApplyOptions([c EXCEPT !.RequestEditors = Append(@, opts[k].fn)], opts, k + 1)
    ELSE IF opts[k].kind = "BaseURL" /\ ~opts[k].parses
         THEN [client |-> NoClient, err |-> <<"p","a","r","s","e"," ","e","r","r","o","r">>]
    ELSE ApplyOptions(c, opts, k + 1)

NewClientWithResponses(server, opts) ==
    ApplyOptions([created |-> TRUE, server |-> server, RequestEditors |-> <<>>], opts, 1)

\* NewPayjpClientWithResponses(apiKey, opts...) on a platform.
NewPayjpClientWithResponses(key, opts, pf) ==
    LET ua == [BindingsVersion |-> BINDINGS_VERSION,
               Lang            |-> <<"g","o">>,
               LangVersion     |-> pf.version,
               Publisher       |-> <<"p","a","y","j","p">>,
               Uname           |-> pf.goos \o <<"/">> \o pf.goarch]
        uaJSON == MarshalUserAgent(ua)
        defaultOpts == << WithUserAgent(UserAgentPrefix \o BINDINGS_VERSION),
                          WithXPayjpClientUserAgent(uaJSON),
                          WithAPIKey(key) >>
    IN  NewClientWithResponses(DEFAULT_BASE_URL, defaultOpts \o opts)

\* The header of a request: the editors of the client, then the editors
\* passed with the request, each setting its header.
RECURSIVE applyEditors(_, _, _)
applyEditors(header, editors, k) ==
    IF k > Len(editors) THEN header
    ELSE applyEditors([header EXCEPT ![editors[k].header] = editors[k].value],
                      editors, k + 1)

\* nil, as a pointer, an error or an interface value.
Nil == [kind |-> "nil"]

\* http.StatusNotFound and the other named constants: the code of a name.
HttpStatus(name) == CHOOSE code \in 100..599 : StatusConstant(code) = name

MaxMappings == 3

\* The status codes of the error responses of the API, ascending.
ErrorCodes == <<400, 404, 422, 500, 503>>

\* var ErrorFieldMappings = []ErrorFieldMapping{...}: the generated table,
\* one entry {FieldName, StatusCode} per code, in ascending order.
ErrorFieldMappings ==
    [k \in 1..(IF MaxMappings < Len(ErrorCodes) THEN MaxMappings ELSE Len(ErrorCodes)) |->
        [FieldName |-> httpStatusName(ErrorCodes[k]), StatusCode |-> ErrorCodes[k]]]

\* &APIError{StatusCode: ..., Body: ..., RawBody: ...}
APIError(status, body, raw) ==
    [kind |-> "APIError", StatusCode |-> status, Body |-> body, RawBody |-> raw]

PayjpAPIError == <<"P","A","Y",".","J","P"," ","A","P","I"," ","e","r","r","o","r"," ">>

\* Mutation: the detail is appended whenever it is set, the empty one too.
Error_EmptyDetail(e) ==
    IF e.Body # Nil
    THEN IF e.Body.Detail # Nil
         THEN PayjpAPIError \o Itoa(e.StatusCode) \o <<":", " ">> \o e.Body.Title
                  \o <<" ", "-", " ">> \o e.Body.Detail.s
         ELSE PayjpAPIError \o Itoa(e.StatusCode) \o <<":", " ">> \o e.Body.Title
    ELSE PayjpAPIError \o Itoa(e.StatusCode)

\* func (e *APIError) Error() string
Error(e) ==
    IF e.Body # Nil
    THEN IF e.Body.Detail # Nil /\ e.Body.Detail.s # <<>>
         THEN PayjpAPIError \o Itoa(e.StatusCode) \o <<":", " ">> \o e.Body.Title
                  \o <<" ", "-", " ">> \o e.Body.Detail.s
         ELSE PayjpAPIError \o Itoa(e.StatusCode) \o <<":", " ">> \o e.Body.Title
    ELSE PayjpAPIError \o Itoa(e.StatusCode)

IsNotFound(e) == e.StatusCode = HttpStatus(<<"S","t","a","t","u","s","N","o","t","F","o","u","n","d">>)

IsBadRequest(e) == e.StatusCode = HttpStatus(<<"S","t","a","t","u","s","B","a","d","R","e","q","u","e","s","t">>)

IsUnprocessableEntity(e) ==
    e.StatusCode = HttpStatus(<<"S","t","a","t","u","s","U","n","p","r","o","c","e","s","s","a","b","l","e","E","n","t","i","t","y">>)

\* The loop of ParseAPIError over ErrorFieldMappings[k..]: the first entry
\* whose field the struct has and holds non-nil gives the error.
RECURSIVE CheckErrorFields(_, _, _)
CheckErrorFields(v, rawBody, k) ==
    IF k > Len(ErrorFieldMappings) THEN Nil
    ELSE LET ef == ErrorFieldMappings[k]
         IN  IF ef.FieldName \in DOMAIN v.fields /\ v.fields[ef.FieldName] # Nil
             THEN APIError(ef.StatusCode, v.fields[ef.FieldName], rawBody)
             ELSE CheckErrorFields(v, rawBody, k + 1)

\* Mutation: the error takes the status code of the HTTP response.
ParseAPIError_HTTPStatus(r) ==
    IF r = Nil THEN Nil
    ELSE IF r.kind # "struct" THEN Nil
    ELSE LET statusCode == IF r.HTTPResponse # Nil THEN r.HTTPResponse.StatusCode ELSE 0
             found == CheckErrorFields(r, r.Body, 1)
         IN  IF found # Nil THEN APIError(statusCode, found.Body, r.Body)
             ELSE IF statusCode >= 400 THEN APIError(statusCode, Nil, r.Body)
             ELSE Nil

\* func ParseAPIError(resp interface{}) *APIError; a pointer to a struct
\* is followed, a nil pointer has no struct behind it.
ParseAPIError(r) ==
    IF r = Nil THEN Nil
    ELSE IF r.kind # "struct" THEN Nil
    ELSE LET statusCode == IF r.HTTPResponse # Nil THEN r.HTTPResponse.StatusCode ELSE 0
             found == CheckErrorFields(r, r.Body, 1)
         IN  IF found # Nil THEN found
             ELSE IF statusCode >= 400 THEN APIError(statusCode, Nil, r.Body)
             ELSE Nil

\* Mutation: the API error is looked for first and hides the error passed.
ExtractResponse_APIErrorFirst(r, err) ==
    IF ParseAPIError(r) # Nil THEN [resp |-> r, err |-> ParseAPIError(r)]
    ELSE [resp |-> r, err |-> err]

\* func Extract[T any](resp T, err error) (T, error)
ExtractResponse(r, err) ==
    IF err # Nil THEN [resp |-> r, err |-> err]
    ELSE IF ParseAPIError(r) # Nil THEN [resp |-> r, err |-> ParseAPIError(r)]
    ELSE [resp |-> r, err |-> Nil]

\* No response is being looked at.
ErrorUnused ==
    /\ resp = Nil
    /\ transportErr = Nil
    /\ apiError = Nil
    /\ extracted = [resp |-> Nil, err |-> Nil]
    /\ message = <<>>
    /\ logged = <<>>

\* The values of a decoded JSON document (interface{}): strings, true,
\* []interface{} and map[string]interface{}.
JSONStr(s) == [t |-> "string", s |-> s]

JSONTrue == [t |-> "bool", b |-> TRUE]

JSONArray(a) == [t |-> "array", a |-> a]

JSONObject(m) == [t |-> "object", m |-> m]

\* delete(v, key)
Delete(m, key) == [x \in DOMAIN m \ {key} |-> m[x]]

\* v[key] = value
Put(m, key, value) == [x \in DOMAIN m \cup {key} |-> IF x = key THEN value ELSE m[x]]

\* for k, val := range src { v[k] = val }
PutAll(m, src) ==
    [x \in DOMAIN m \cup DOMAIN src |-> IF x \in DOMAIN src THEN src[x] ELSE m[x]]

\* The items of an anyOf array that are kept: all but the objects whose
\* "type" is the string "null".
IsNullType(item) ==
    /\ item.t = "object"
    /\ "type" \in DOMAIN item.m
    /\ item.m["type"] = JSONStr("null")

NonNullItems(arr) == SelectSeq(arr, LAMBDA item : ~IsNullType(item))

\* The iteration for key "anyOf" reaches delete(v, "anyOf"): one object is
\* left after the null types are dropped, or nothing but null types.
DeletesAnyOf(m) ==
    /\ m["anyOf"].t = "array"
    /\ LET newArr == NonNullItems(m["anyOf"].a)
       IN  \/ Len(newArr) = 1 /\ newArr[1].t = "object"
           \/ Len(newArr) = 0 /\ Len(m["anyOf"].a) > 0

\* The body of the loop of fixNullTypes for key "anyOf": the map as the
\* iteration leaves it.
FixAnyOf(m) ==
    LET value == m["anyOf"]
    IN  IF value.t # "array" THEN m
        ELSE LET newArr  == NonNullItems(value.a)
                 hasNull == Len(newArr) < Len(value.a)
             IN  IF Len(newArr) = 1
                 THEN IF newArr[1].t = "object"
                      THEN LET merged == PutAll(Delete(m, "anyOf"), newArr[1].m)
                           IN  IF hasNull THEN Put(merged, "nullable", JSONTrue)
                               ELSE merged
                      ELSE m
                 ELSE IF Len(newArr) > 1 THEN Put(m, "anyOf", JSONArray(newArr))
                 ELSE IF hasNull
                      THEN Put(Put(Delete(m, "anyOf"), "type", JSONStr("string")),
                               "nullable", JSONTrue)
                 ELSE m

\* The body of the loop for key "type".
FixType(m) ==
    LET value == m["type"]
    IN  IF value.t # "array" THEN m
        ELSE LET nonNullTypes == SelectSeq(value.a, LAMBDA x : x # JSONStr("null"))
                 hasNull      == Len(nonNullTypes) < Len(value.a)
             IN  IF Len(nonNullTypes) = 1
                 THEN IF hasNull
                      THEN Put(Put(m, "type", nonNullTypes[1]), "nullable", JSONTrue)
                      ELSE Put(m, "type", nonNullTypes[1])
                 ELSE IF Len(nonNullTypes) > 1
                      THEN Put(m, "type", JSONArray(nonNullTypes))
                 ELSE m

\* fixNullTypes(obj): the values obj can be left with. The range over a
\* map yields every entry that was there when it started and was not
\* deleted before its turn, in any order, each with the value it has at
\* its turn; an entry created during the range is yielded or skipped.
RECURSIVE fixNullTypes(_), RangeMap(_, _, _), VisitKey(_, _, _, _), FixItems(_, _)
fixNullTypes(obj) ==
    IF obj.t = "object"
    THEN {JSONObject(m) : m \in RangeMap(obj.m, DOMAIN obj.m, {})}
    ELSE IF obj.t = "array"
    THEN {JSONArray(a) : a \in FixItems(obj.a, 1)}
    ELSE {obj}

RangeMap(m, pending, created) ==
    (IF pending = {} THEN {m} ELSE {})
        \cup UNION {VisitKey(m, key, pending \ {key}, created \ {key}) :
                      key \in pending \cup created}

VisitKey(m, key, pending, created) ==
    IF key \in {"anyOf", "type"}
    THEN LET after == IF key = "anyOf" THEN FixAnyOf(m) ELSE FixType(m)
             before == IF key = "anyOf" /\ DeletesAnyOf(m) THEN DOMAIN m \ {"anyOf"}
                       ELSE DOMAIN m
         IN  RangeMap(after, pending \cap DOMAIN after,
                      created \cup (DOMAIN after \ before))
    ELSE UNION {RangeMap(Put(m, key, value), pending, created) :
                  value \in fixNullTypes(m[key])}

FixItems(a, k) ==
    IF k > Len(a) THEN {a}
    ELSE UNION {FixItems([a EXCEPT ![k] = item], k + 1) : item \in fixNullTypes(a[k])}

\* No document is being converted.
ConvertUnused ==
    /\ document = JSONStr("")
    /\ converted = JSONStr("")

NoPlatform == [version |-> <<>>, goos |-> <<>>, goarch |-> <<>>]

\* No client is being made.
ClientUnused ==
    /\ platform = NoPlatform
    /\ apiKey = <<>>
    /\ clientOpts = <<>>
    /\ client = NoClient
    /\ clientErr = <<>>
    /\ sent = <<>>
    /\ given = <<>>
    /\ ErrorUnused
    /\ ConvertUnused

---------------------------------------------------------------------------
(* main(): one action per step of the run.                                 *)

\* No run of main has finished yet.
NoPrevious == [ran |-> FALSE, src |-> <<>>, map |-> EmptyFile]

Init ==
    /\ pc = "read"
    /\ \/ \E k \in 0..MaxMainFrags : \E f \in [1..k -> MainFrags] : srcFile = Flatten(f)
       \/ srcFile \in ScenarioTexts
    /\ content = <<>>
    /\ modified = <<>>
    /\ errorFieldMappings = EmptyMap
    /\ errorMappings = <<>>
    /\ visited = <<>>
    /\ rangeOrder = <<>>
    /\ rule = <<>>
    /\ httpCode = 0
    /\ kindName = <<>>
    /\ mapFile = EmptyFile
    /\ exitCode = 0
    /\ stdout = <<>>
    /\ summary = NoSummary
    /\ previous = NoPrevious
    /\ ClientUnused

\* os.Exit(1) after the diagnostic.
Exit1(msg) ==
    /\ pc' = "exit"
    /\ exitCode' = 1
    /\ stdout' = Append(stdout, msg)

\* data, err := os.ReadFile(inputFile)
ReadFile ==
    /\ pc = "read"
    /\ \/ /\ content' = srcFile
          /\ pc' = "extract"
          /\ UNCHANGED <<exitCode, stdout>>
       \/ /\ Exit1("Error reading file")
          /\ UNCHANGED content
    /\ UNCHANGED <<modified, errorFieldMappings, errorMappings, visited, rangeOrder,
                   rule, httpCode, kindName, srcFile, mapFile, summary>>
    /\ UNCHANGED <<previous, clientVars>>

\* errorFieldMappings := extractErrorFieldMappings(content); modified := content
Extract ==
    /\ pc = "extract"
    /\ errorFieldMappings' = extractErrorFieldMappings(content)
    /\ modified' = content
    /\ pc' = "success"
    /\ UNCHANGED <<content, errorMappings, visited, rangeOrder, rule, httpCode,
                   kindName, srcFile, mapFile, exitCode, stdout, summary>>
    /\ UNCHANGED <<previous, clientVars>>

\* One iteration of  for old, new := range fieldMappings.
RangeFieldMappings ==
    /\ pc = "success"
    /\ \E old \in DOMAIN fieldMappings \ Range(visited) :
          /\ modified' = replaceFieldName(modified, old, fieldMappings[old])
          /\ LET more == DOMAIN fieldMappings \ (Range(visited) \cup {old}) # {}
             IN  /\ visited' = IF more THEN Append(visited, old) ELSE <<>>
                 /\ pc' = IF more THEN "success"
                          ELSE IF DOMAIN errorFieldMappings # {} THEN "errors"
                          ELSE "idparams"
    /\ UNCHANGED <<content, errorFieldMappings, errorMappings, rangeOrder, rule,
                   httpCode, kindName, srcFile, mapFile, exitCode, stdout, summary>>
    /\ UNCHANGED <<previous, clientVars>>

\* One iteration of  for old, new := range errorFieldMappings.
RangeErrorFieldMappings ==
    /\ pc = "errors"
    /\ \E old \in DOMAIN errorFieldMappings \ Range(visited) :
          /\ modified' = replaceFieldName(modified, old, errorFieldMappings[old])
          /\ LET more == DOMAIN errorFieldMappings \ (Range(visited) \cup {old}) # {}
             IN  /\ visited' = IF more THEN Append(visited, old) ELSE <<>>
                 /\ pc' = IF more THEN "errors" ELSE "idparams"
    /\ UNCHANGED <<content, errorFieldMappings, errorMappings, rangeOrder, rule,
                   httpCode, kindName, srcFile, mapFile, exitCode, stdout, summary>>
    /\ UNCHANGED <<previous, clientVars>>

\* modified = replaceIDParams(modified)
ReplaceIDParams ==
    /\ pc = "idparams"
    /\ modified' = replaceIDParams(modified)
    /\ pc' = "write"
    /\ UNCHANGED <<content, errorFieldMappings, errorMappings, visited, rangeOrder,
                   rule, httpCode, kindName, srcFile, mapFile, exitCode, stdout, summary>>
    /\ UNCHANGED <<previous, clientVars>>

\* Mutation: the error of os.WriteFile is reported but the run goes on.
WriteSource_IgnoresError ==
    /\ pc = "write"
    /\ \/ /\ srcFile' = modified
          /\ UNCHANGED stdout
       \/ /\ stdout' = Append(stdout, "Error writing file")
          /\ srcFile' \in {srcFile, <<>>}
    /\ pc' = "generate"
    /\ UNCHANGED <<content, modified, errorFieldMappings, errorMappings, visited,
                   rangeOrder, rule, httpCode, kindName, mapFile, exitCode, summary>>
    /\ UNCHANGED <<previous, clientVars>>

\* os.WriteFile(inputFile, []byte(modified), 0644): a failure leaves the
\* file as it was (open failed) or truncated (write failed).
WriteSource ==
    /\ pc = "write"
    /\ \/ /\ srcFile' = modified
          /\ pc' = "generate"
          /\ UNCHANGED <<exitCode, stdout>>
       \/ /\ Exit1("Error writing file")
          /\ srcFile' \in {srcFile, <<>>}
    /\ UNCHANGED <<content, modified, errorFieldMappings, errorMappings, visited,
                   rangeOrder, rule, httpCode, kindName, mapFile, summary>>
    /\ UNCHANGED <<previous, clientVars>>

\* errorMappings := extractErrorMappings(errorFieldMappings), then
\* generateErrorMappingsFile(outputMappingsFile, errorMappings).
Generate ==
    /\ pc = "generate"
    /\ \E o \in Orders(DOMAIN errorFieldMappings) :
          /\ rangeOrder' = o
          /\ errorMappings' = extractErrorMappings(errorFieldMappings, o)
    /\ \/ /\ mapFile' = GeneratedFile(errorMappings')
          /\ pc' = "summary"
          /\ UNCHANGED <<exitCode, stdout>>
       \/ /\ Exit1("Error generating error_mappings.gen.go")
          /\ mapFile' \in {mapFile, EmptyFile}
    /\ UNCHANGED <<content, modified, errorFieldMappings, visited, rule,
                   httpCode, kindName, srcFile, summary>>
    /\ UNCHANGED <<previous, clientVars>>

\* The two success lines, then printSummary(content, modified, errorFieldMappings).
PrintSummary ==
    /\ pc = "summary"
    /\ stdout' = stdout \o << "Successfully post-processed client.gen.go",
                             "Successfully generated error_mappings.gen.go" >>
    /\ summary' = printSummary(content, modified, errorFieldMappings)
    /\ pc' = "done"
    /\ UNCHANGED <<content, modified, errorFieldMappings, errorMappings, visited,
                   rangeOrder, rule, httpCode, kindName, srcFile, mapFile, exitCode>>
    /\ UNCHANGED <<previous, clientVars>>

\* main is invoked again after a run that finished: a new process, whose
\* only inheritance is the two files on disk.
Rerun ==
    /\ pc = "done"
    /\ ~previous.ran
    /\ previous' = [ran |-> TRUE, src |-> srcFile, map |-> mapFile]
    /\ pc' = "read"
    /\ content' = <<>>
    /\ modified' = <<>>
    /\ errorFieldMappings' = EmptyMap
    /\ errorMappings' = <<>>
    /\ rangeOrder' = <<>>
    /\ exitCode' = 0
    /\ stdout' = <<>>
    /\ summary' = NoSummary
    /\ UNCHANGED <<visited, rule, httpCode, kindName, srcFile, mapFile, clientVars>>

Next ==
    \/ ReadFile
    \/ Extract
    \/ RangeFieldMappings
    \/ RangeErrorFieldMappings
    \/ ReplaceIDParams
    \/ WriteSource
    \/ Generate
    \/ PrintSummary
    \/ Rerun

Spec == Init /\ [][Next]_vars

---------------------------------------------------------------------------
(* The functions of main.go called on their own, on every input of a       *)
(* bounded set.                                                            *)

\* No run of main is in progress.
NoMainRun ==
    /\ visited = <<>>
    /\ srcFile = <<>>
    /\ mapFile = EmptyFile
    /\ exitCode = 0
    /\ stdout = <<>>
    /\ summary = NoSummary
    /\ previous = NoPrevious

NoRun == NoMainRun /\ ClientUnused

mainVars == <<visited, srcFile, mapFile, exitCode, stdout, summary, previous, clientVars>>

InitStatus ==
    /\ pc = "httpStatusName"
    /\ httpCode \in 0..MaxCode
    /\ kindName = <<>>
    /\ content = <<>>
    /\ modified = <<>>
    /\ errorFieldMappings = EmptyMap
    /\ errorMappings = <<>>
    /\ rangeOrder = <<>>
    /\ rule = <<>>
    /\ NoRun

CallHttpStatusName ==
    /\ pc = "httpStatusName"
    /\ kindName' = httpStatusName(httpCode)
    /\ pc' = "returned"
    /\ UNCHANGED <<content, modified, errorFieldMappings, errorMappings, rangeOrder,
                   rule, httpCode, mainVars>>

NextStatus == CallHttpStatusName

SpecStatus == InitStatus /\ [][NextStatus]_vars

InitExtract ==
    /\ pc = "extractErrorFieldMappings"
    /\ \E k \in 0..MaxExtractFrags : \E f \in [1..k -> ExtractFrags] : content = Flatten(f)
    /\ modified = <<>>
    /\ errorFieldMappings = EmptyMap
    /\ errorMappings = <<>>
    /\ rangeOrder = <<>>
    /\ rule = <<>>
    /\ httpCode = 0
    /\ kindName = <<>>
    /\ NoRun

CallExtractErrorFieldMappings ==
    /\ pc = "extractErrorFieldMappings"
    /\ errorFieldMappings' = extractErrorFieldMappings(content)
    /\ pc' = "extractErrorMappings"
    /\ UNCHANGED <<content, modified, errorMappings, rangeOrder, rule, httpCode,
                   kindName, mainVars>>

\* extractErrorMappings on the extracted map, the range loop yielding the
\* keys in any order.
CallExtractErrorMappings ==
    /\ pc = "extractErrorMappings"
    /\ \E o \in Orders(DOMAIN errorFieldMappings) :
          /\ rangeOrder' = o
          /\ errorMappings' = extractErrorMappings(errorFieldMappings, o)
    /\ pc' = "returned"
    /\ UNCHANGED <<content, modified, errorFieldMappings, rule, httpCode,
                   kindName, mainVars>>

NextExtract ==
    \/ CallExtractErrorFieldMappings
    \/ CallExtractErrorMappings

SpecExtract == InitExtract /\ [][NextExtract]_vars

InitField ==
    /\ pc = "replaceFieldName"
    /\ \/ \E k \in 0..MaxFieldFrags : \E f \in [1..k -> FieldFrags] : content = Flatten(f)
       \/ content \in DeclTexts(MaxDeclWords)
       \/ content \in BareTexts
    /\ rule \in FieldRules
    /\ modified = <<>>
    /\ errorFieldMappings = EmptyMap
    /\ errorMappings = <<>>
    /\ rangeOrder = <<>>
    /\ httpCode = 0
    /\ kindName = <<>>
    /\ NoRun

CallReplaceFieldName ==
    /\ pc = "replaceFieldName"
    /\ modified' = replaceFieldName(content, rule[1], rule[2])
    /\ pc' = "returned"
    /\ UNCHANGED <<content, errorFieldMappings, errorMappings, rangeOrder, rule,
                   httpCode, kindName, mainVars>>

NextField == CallReplaceFieldName

SpecField == InitField /\ [][NextField]_vars

InitID ==
    /\ pc = "replaceIDParams"
    /\ \E k \in 0..MaxIDFrags : \E f \in [1..k -> IDFrags] : content = Flatten(f)
    /\ modified = <<>>
    /\ errorFieldMappings = EmptyMap
    /\ errorMappings = <<>>
    /\ rangeOrder = <<>>
    /\ rule = <<>>
    /\ httpCode = 0
    /\ kindName = <<>>
    /\ NoRun

CallReplaceIDParams ==
    /\ pc = "replaceIDParams"
    /\ modified' = replaceIDParams(content)
    /\ pc' = "returned"
    /\ UNCHANGED <<content, errorFieldMappings, errorMappings, rangeOrder, rule,
                   httpCode, kindName, mainVars>>

NextID == CallReplaceIDParams

SpecID == InitID /\ [][NextID]_vars

---------------------------------------------------------------------------
(* A caller of payjpv2_client.go: it makes one client and sends requests   *)
(* through it.                                                             *)

MaxOpts == 2
MaxRequests == 2

ApiKeys ==
    { <<>>, <<"i","n","v","a","l","i","d","_","k","e","y">>, <<"t","e","s","t","_","k","e","y">>, <<"s","k","_">>, <<"s","k","_","t","e","s","t","_","e","x","a","m","p","l","e">> }

Platforms ==
    { [version |-> <<"g","o","1",".","2","2",".","1">>, goos |-> <<"l","i","n","u","x">>, goarch |-> <<"a","m","d","6","4">>],
      [version |-> <<"g","o","1",".","2","1",".","0">>, goos |-> <<"d","a","r","w","i","n">>, goarch |-> <<"a","r","m","6","4">>] }

\* The options a caller passes: the transport of the tests, a header set
\* by the caller, a base URL that does not parse, an idempotency key set
\* for every request of the client.
CallerOptions ==
    { WithHTTPClient, WithUserAgent(<<"c","u","s","t","o","m","-","a","g","e","n","t">>), WithAPIKey(<<"s","k","_","o","t","h","e","r">>), WithBaseURL(FALSE),
      WithRequestEditorFn(WithIdempotencyKey(<<"c","l","i","e","n","t","-","k","e","y">>)) }

\* The idempotency keys a caller passes with one request: none or one.
RequestKeyLists ==
    { <<>>, <<<<"f","i","r","s","t","-","i","d","e","m","p","o","t","e","n","c","y","-","k","e","y">>>>, <<<<"s","e","c","o","n","d","-","i","d","e","m","p","o","t","e","n","c","y","-","k","e","y">>>> }

\* WithIdempotencyKey(key) for each key passed.
RequestEditors(keys) == [k \in 1..Len(keys) |-> WithIdempotencyKey(keys[k])]

InitClient ==
    /\ pc = "NewPayjpClientWithResponses"
    /\ platform \in Platforms
    /\ apiKey \in ApiKeys
    /\ \E k \in 0..MaxOpts : clientOpts \in [1..k -> CallerOptions]
    /\ client = NoClient
    /\ clientErr = <<>>
    /\ sent = <<>>
    /\ given = <<>>
    /\ ErrorUnused
    /\ ConvertUnused
    /\ content = <<>>
    /\ modified = <<>>
    /\ errorFieldMappings = EmptyMap
    /\ errorMappings = <<>>
    /\ rangeOrder = <<>>
    /\ rule = <<>>
    /\ httpCode = 0
    /\ kindName = <<>>
    /\ NoMainRun

otherVars == <<content, modified, errorFieldMappings, errorMappings, rangeOrder,
               rule, httpCode, kindName, visited, srcFile, mapFile, exitCode,
               stdout, summary, previous>>

\* client, err := NewPayjpClientWithResponses(apiKey, opts...)
CallNewPayjpClientWithResponses ==
    /\ pc = "NewPayjpClientWithResponses"
    /\ LET r == NewPayjpClientWithResponses(apiKey, clientOpts, platform)
       IN  /\ client' = r.client
           /\ clientErr' = r.err
           /\ pc' = IF r.err = <<>> THEN "client" ELSE "returned"
    /\ UNCHANGED <<platform, apiKey, clientOpts, sent, given, errorVars, convertVars,
                   otherVars>>

\* One request through the client, with or without an idempotency key:
\* the transport sees the header the editors leave.
SendRequest ==
    /\ pc = "client"
    /\ Len(sent) < MaxRequests
    /\ \E keys \in RequestKeyLists :
          /\ sent' = Append(sent, applyEditors(EmptyHeader,
                                               client.RequestEditors \o RequestEditors(keys), 1))
          /\ given' = Append(given, keys)
    /\ UNCHANGED <<pc, platform, apiKey, clientOpts, client, clientErr, errorVars,
                   convertVars, otherVars>>

NextClient ==
    \/ CallNewPayjpClientWithResponses
    \/ SendRequest

SpecClient == InitClient /\ [][NextClient]_vars

\* The error responses of the API: title, detail (nil, empty or a text)
\* and status.
ErrorResponses ==
    { [Title |-> <<"N","o","t"," ","F","o","u","n","d">>,
       Detail |-> [s |-> <<"C","u","s","t","o","m","e","r"," ","n","o","t"," ","f","o","u","n","d">>],
       Status |-> 404],
      [Title |-> <<"B","a","d"," ","R","e","q","u","e","s","t">>, Detail |-> Nil, Status |-> 400],
      [Title |-> <<"U","n","p","r","o","c","e","s","s","a","b","l","e">>, Detail |-> [s |-> <<>>],
       Status |-> 422] }

\* The error fields of the response structs: the fields of the table.
ErrorFieldNames == {ErrorFieldMappings[k].FieldName : k \in 1..Len(ErrorFieldMappings)}

\* The *http.Response of a response struct: nil, or one with a status.
HTTPResponses == {Nil} \cup {[StatusCode |-> c] : c \in {200, 400, 404, 500}}

RawBodies == { <<>>, <<"{","}">> }

\* The response structs of the generated client: each has Body and
\* HTTPResponse and some of the error fields, each nil or populated.
ResponseStructs ==
    { [kind |-> "struct", HTTPResponse |-> h, Body |-> b, fields |-> f] :
        h \in HTTPResponses, b \in RawBodies,
        f \in UNION {[D -> {Nil} \cup ErrorResponses] : D \in SUBSET ErrorFieldNames} }

\* What a caller can pass as resp: nil, a value that is no struct, a nil
\* pointer to a response struct, a pointer to a response struct.
Responses ==
    { Nil, [kind |-> "string"], [kind |-> "nil pointer"] } \cup ResponseStructs

\* The errors of the transport.
TransportErrors == { Nil, [kind |-> "error", text |-> <<"t","i","m","e","o","u","t">>] }

InitError ==
    /\ pc = "ParseAPIError"
    /\ resp \in Responses
    /\ transportErr \in TransportErrors
    /\ apiError = Nil
    /\ extracted = [resp |-> Nil, err |-> Nil]
    /\ message = <<>>
    /\ logged = <<>>
    /\ platform = NoPlatform
    /\ apiKey = <<>>
    /\ clientOpts = <<>>
    /\ client = NoClient
    /\ clientErr = <<>>
    /\ sent = <<>>
    /\ given = <<>>
    /\ ConvertUnused
    /\ content = <<>>
    /\ modified = <<>>
    /\ errorFieldMappings = EmptyMap
    /\ errorMappings = <<>>
    /\ rangeOrder = <<>>
    /\ rule = <<>>
    /\ httpCode = 0
    /\ kindName = <<>>
    /\ NoMainRun

requestVars == <<platform, apiKey, clientOpts, client, clientErr, sent, given,
                 convertVars>>

\* apiErr := ParseAPIError(resp)
CallParseAPIError ==
    /\ pc = "ParseAPIError"
    /\ apiError' = ParseAPIError(resp)
    /\ pc' = "Extract"
    /\ UNCHANGED <<resp, transportErr, extracted, message, logged, requestVars, otherVars>>

\* resp, err := Extract(resp, err)
CallExtract ==
    /\ pc = "Extract"
    /\ extracted' = ExtractResponse(resp, transportErr)
    /\ pc' = IF extracted'.err = Nil THEN "returned" ELSE "err"
    /\ UNCHANGED <<resp, transportErr, apiError, message, logged, requestVars, otherVars>>

\* err.Error() of an *APIError that Extract returned.
CallError ==
    /\ pc = "err"
    /\ extracted.err.kind = "APIError"
    /\ message' = Error(extracted.err)
    /\ pc' = "usage"
    /\ UNCHANGED <<resp, transportErr, apiError, extracted, logged, requestVars, otherVars>>

\* The usage example on an error: errors.As(err, &apiErr), then
\* log.Fatalf("API error %d: %s", apiErr.StatusCode, apiErr.Body.Title);
\* reading Title through a nil Body panics. Another error is logged as is.
LogFatal ==
    /\ \/ /\ pc = "usage"
          /\ logged' = IF extracted.err.Body = Nil
                       THEN <<"p","a","n","i","c">>
                       ELSE <<"A","P","I"," ","e","r","r","o","r"," ">>
                                \o Itoa(extracted.err.StatusCode) \o <<":", " ">>
                                \o extracted.err.Body.Title
       \/ /\ pc = "err"
          /\ extracted.err.kind # "APIError"
          /\ logged' = extracted.err.text
    /\ pc' = "exit"
    /\ UNCHANGED <<resp, transportErr, apiError, extracted, message, requestVars, otherVars>>

NextError ==
    \/ CallParseAPIError
    \/ CallExtract
    \/ CallError
    \/ LogFatal

SpecError == InitError /\ [][NextError]_vars

MaxDepth == 2

StringSchema == JSONObject([x \in {"type"} |-> JSONStr("string")])

NullSchema == JSONObject([x \in {"type"} |-> JSONStr("null")])

\* Schemas without a schema inside: a string, a nullable string and the
\* null type written as type arrays, and an anyOf of the null type alone.
LeafSchemas ==
    { StringSchema,
      JSONObject([x \in {"type"} |-> JSONArray(<<JSONStr("string"), JSONStr("null")>>)]),
      JSONObject([x \in {"type"} |-> JSONArray(<<JSONStr("null")>>)]),
      JSONObject([x \in {"anyOf"} |-> JSONArray(<<NullSchema>>)]) }

\* Schemas that hold the schema s: nullable s, a nullable choice of s and
\* a string, an object with a property "name" or "type" of schema s, an
\* array of s.
Wrap(s) ==
    { JSONObject([x \in {"anyOf"} |-> JSONArray(<<s, NullSchema>>)]),
      JSONObject([x \in {"anyOf"} |-> JSONArray(<<s, StringSchema, NullSchema>>)]),
      JSONObject([x \in {"properties"} |-> JSONObject([y \in {"name"} |-> s])]),
      JSONObject([x \in {"properties"} |-> JSONObject([y \in {"type"} |-> s])]),
      JSONObject([x \in {"type", "items"} |->
                     IF x = "type" THEN JSONStr("array") ELSE s]) }

RECURSIVE Schemas(_)
Schemas(depth) ==
    IF depth = 0 THEN LeafSchemas
    ELSE LeafSchemas \cup UNION {Wrap(s) : s \in Schemas(depth - 1)}

InitConvert ==
    /\ pc = "fixNullTypes"
    /\ document \in Schemas(MaxDepth)
    /\ converted = JSONStr("")
    /\ platform = NoPlatform
    /\ apiKey = <<>>
    /\ clientOpts = <<>>
    /\ client = NoClient
    /\ clientErr = <<>>
    /\ sent = <<>>
    /\ given = <<>>
    /\ ErrorUnused
    /\ content = <<>>
    /\ modified = <<>>
    /\ errorFieldMappings = EmptyMap
    /\ errorMappings = <<>>
    /\ rangeOrder = <<>>
    /\ rule = <<>>
    /\ httpCode = 0
    /\ kindName = <<>>
    /\ NoMainRun

\* fixNullTypes(spec)
CallFixNullTypes ==
    /\ pc = "fixNullTypes"
    /\ converted' \in fixNullTypes(document)
    /\ pc' = "returned"
    /\ UNCHANGED <<document, platform, apiKey, clientOpts, client, clientErr, sent,
                   given, errorVars, otherVars>>

NextConvert == CallFixNullTypes

SpecConvert == InitConvert /\ [][NextConvert]_vars

---------------------------------------------------------------------------
(* Properties.                                                             *)

\* The end of the maximal digit run that starts at position p.
DigitRunEnd(s, p) ==
    CHOOSE j \in p..Len(s) :
        /\ \A k \in p..j : s[k] \in Digit
        /\ j = Len(s) \/ s[j + 1] \notin Digit

\* The marker tokens of a text: every occurrence of the marker followed by
\* at least one digit, with the whole digit run.
MarkerTokens(s) ==
    {SubSeq(s, i, DigitRunEnd(s, i + Len(Marker))) :
        i \in {k \in 1..Len(s) : /\ HasPrefixAt(s, Marker, k)
                                 /\ k + Len(Marker) <= Len(s)
                                 /\ s[k + Len(Marker)] \in Digit}}

TokenDigits(t) == SubSeq(t, Len(Marker) + 1, Len(t))

ParsableTokens(s) == {t \in MarkerTokens(s) : ~Atoi(TokenDigits(t)).err}

\* C1: extractErrorFieldMappings returns exactly one entry per distinct
\* marker token of the text whose digit run parses as an integer: the keys
\* of the returned map are those tokens, however often each occurs, and a
\* text without a marker token gives the empty map.
C1_OneEntryPerToken ==
    pc \in {"extractErrorMappings", "returned"} =>
        /\ DOMAIN errorFieldMappings = ParsableTokens(content)
        /\ (MarkerTokens(content) = {} => errorFieldMappings = EmptyMap)

\* A text in which one token occurs twice beside another token and a token
\* whose digits do not parse.
C1_Witness ==
    /\ pc = "extractErrorMappings"
    /\ Cardinality(DOMAIN errorFieldMappings) = 1
    /\ \E t \in DOMAIN errorFieldMappings : StringsCount(content, 1, t) = 2
    /\ MarkerTokens(content) # ParsableTokens(content)

\* C2: extractErrorMappings returns one (FieldName, StatusCode) element per
\* entry of the extracted map, StatusCode the integer after the marker
\* prefix and FieldName the mapped name, in ascending StatusCode order
\* whatever order the range loop yields the keys in.
C2_SortedOnePerEntry ==
    pc = "returned" =>
        /\ Len(errorMappings) = Cardinality(DOMAIN errorFieldMappings)
        /\ \A k \in 1..(Len(errorMappings) - 1) :
              errorMappings[k].StatusCode <= errorMappings[k + 1].StatusCode
        /\ \E o \in Orders(DOMAIN errorFieldMappings) :
              \A k \in 1..Len(o) :
                 errorMappings[k] =
                    [FieldName  |-> errorFieldMappings[o[k]],
                     StatusCode |-> DecimalValue(TokenDigits(o[k]))]

\* The range loop yielded a larger status code before a smaller one.
C2_Witness ==
    /\ pc = "returned"
    /\ Len(rangeOrder) = 3
    /\ DecimalValue(TokenDigits(rangeOrder[1])) > DecimalValue(TokenDigits(rangeOrder[2]))
    /\ errorMappings[1].StatusCode < errorMappings[3].StatusCode

NoSpaces(s) == SelectSeq(s, LAMBDA c : c # " ")

\* C3: httpStatusName returns the status phrase without its spaces when
\* the code has a phrase (400 BadRequest, 422 UnprocessableEntity, 500
\* InternalServerError) and the decimal digits of the code when it has
\* none (999 gives "999"); it returns a name for every code.
C3_StatusName ==
    pc = "returned" =>
        /\ kindName # <<>>
        /\ StatusText(httpCode) # <<>> => kindName = NoSpaces(StatusText(httpCode))
        /\ StatusText(httpCode) = <<>> =>
              /\ \A k \in 1..Len(kindName) : kindName[k] \in Digit
              /\ Len(kindName) > 1 => kindName[1] # "0"
              /\ DecimalValue(kindName) = httpCode
        /\ httpCode = 400 => kindName = <<"B","a","d","R","e","q","u","e","s","t">>
        /\ httpCode = 422 => kindName = <<"U","n","p","r","o","c","e","s","s","a","b","l","e",
                                          "E","n","t","i","t","y">>
        /\ httpCode = 500 => kindName = <<"I","n","t","e","r","n","a","l",
                                          "S","e","r","v","e","r","E","r","r","o","r">>
        /\ httpCode = 999 => kindName = <<"9","9","9">>

\* A phrase of three words has lost both spaces.
C3_Witness ==
    /\ pc = "returned"
    /\ httpCode = 500
    /\ Len(StatusText(httpCode)) = Len(kindName) + 2

\* C4: for every status code that has a phrase, the kind name holds only
\* letters and digits and starts with a letter.
C4_IdentifierSafe ==
    (pc = "returned" /\ StatusText(httpCode) # <<>>) =>
        /\ \A k \in 1..Len(kindName) : kindName[k] \in Letter \cup Digit
        /\ kindName[1] \in Letter

Occurs(sub, s) == \E i \in 1..Len(s) : HasPrefixAt(s, sub, i)

\* The identifiers of a text (maximal runs of word characters) in which
\* sub occurs immediately followed by a further word character, in order,
\* each with the character before and the character after it.
RECURSIVE RunEnd(_, _)
RunEnd(s, i) == IF i < Len(s) /\ s[i + 1] \in Word THEN RunEnd(s, i + 1) ELSE i

IdentStarts(s) ==
    {i \in 1..Len(s) : s[i] \in Word /\ (i = 1 \/ s[i - 1] \notin Word)}

RECURSIVE SortedSeq(_)
SortedSeq(S) ==
    IF S = {} THEN <<>>
    ELSE LET m == CHOOSE x \in S : \A y \in S : x <= y
         IN  <<m>> \o SortedSeq(S \ {m})

Extends(s, sub, i) ==
    \E k \in i..RunEnd(s, i) :
        HasPrefixAt(s, sub, k) /\ k + Len(sub) <= RunEnd(s, i)

LongerIdents(s, sub) ==
    LET starts == SortedSeq({i \in IdentStarts(s) : Extends(s, sub, i)})
    IN  [k \in 1..Len(starts) |->
            [before |-> IF starts[k] = 1 THEN <<>> ELSE <<s[starts[k] - 1]>>,
             ident  |-> SubSeq(s, starts[k], RunEnd(s, starts[k])),
             after  |-> IF RunEnd(s, starts[k]) = Len(s) THEN <<>>
                        ELSE <<s[RunEnd(s, starts[k]) + 1]>>]]

\* Every occurrence of sub in s is immediately followed by a word character.
AllExtended(s, sub) ==
    \A i \in 1..Len(s) :
        HasPrefixAt(s, sub, i) => (i + Len(sub) <= Len(s) /\ s[i + Len(sub)] \in Word)

\* C5: replaceFieldName never rewrites part of a longer identifier: the
\* identifiers in which oldName is followed by a further identifier
\* character are the same, with the same neighbours, before and after the
\* call, and a text in which oldName occurs only that way is returned
\* unchanged.
C5_NoPartialMatch ==
    pc = "returned" =>
        /\ LongerIdents(modified, rule[1]) = LongerIdents(content, rule[1])
        /\ AllExtended(content, rule[1]) => modified = content

\* A call that renamed a declaration whose type is a longer identifier,
\* and one on ".JSON2001".
C5_Witness ==
    /\ pc = "returned"
    /\ rule[1] = JSON200
    /\ modified # content
    /\ Len(LongerIdents(content, JSON200)) = 1
    /\ LongerIdents(content, JSON200)[1].ident = JSON200 \o <<"1">>

\* C6: when oldName does not occur in the text, replaceFieldName returns
\* the text unchanged.
C6_AbsentUnchanged ==
    (pc = "returned" /\ ~Occurs(rule[1], content)) => modified = content

\* oldName is absent while the other success field stands in a json tag.
C6_Witness ==
    /\ pc = "returned"
    /\ rule[1] = JSON201
    /\ ~Occurs(JSON201, content)
    /\ content = JsonTagOpen \o JSON200 \o <<"\"">>
    /\ modified = content

\* oldName at position i of s stands in one of the three contexts.
InDeclaration(s, sub, i) ==
    /\ HasPrefixAt(s, sub, i)
    /\ i = 1 \/ s[i - 1] \notin Word
    /\ \E j \in (i + Len(sub))..Len(s) :
          /\ \A k \in (i + Len(sub))..j : s[k] \in Space
          /\ j < Len(s)
          /\ \/ s[j + 1] \in Word
             \/ s[j + 1] = "*" /\ j + 1 < Len(s) /\ s[j + 2] \in Word

InAccess(s, sub, i) ==
    /\ HasPrefixAt(s, sub, i)
    /\ i > 1 /\ s[i - 1] = "."
    /\ i + Len(sub) > Len(s) \/ s[i + Len(sub)] \notin Word

InJsonTag(s, sub, i) ==
    /\ HasPrefixAt(s, sub, i)
    /\ i > Len(JsonTagOpen) /\ HasPrefixAt(s, JsonTagOpen, i - Len(JsonTagOpen))
    /\ i + Len(sub) <= Len(s) /\ s[i + Len(sub)] = "\""

InContext(s, sub, i) ==
    InDeclaration(s, sub, i) \/ InAccess(s, sub, i) \/ InJsonTag(s, sub, i)

\* C7: after replaceFieldName no occurrence of oldName in one of the three
\* contexts (declaration, member access, json tag) is left in the result.
C7_NoContextLeft ==
    pc = "returned" => \A i \in 1..Len(modified) : ~InContext(modified, rule[1], i)

\* The rename loops of main run with given iteration orders.
RECURSIVE ApplyRules(_, _, _, _)
ApplyRules(s, mappings, keys, k) ==
    IF k > Len(keys) THEN s
    ELSE ApplyRules(replaceFieldName(s, keys[k], mappings[keys[k]]),
                    mappings, keys, k + 1)

\* One fixed order of the keys of a map.
FixedOrder(mappings) == CHOOSE o \in Orders(DOMAIN mappings) : TRUE

\* The text after the success renames and the error renames, each group
\* applied in its fixed order.
Renamed(s, efm) ==
    ApplyRules(ApplyRules(s, fieldMappings, FixedOrder(fieldMappings), 1),
               efm, FixedOrder(efm), 1)

\* C8: whatever order the two range loops yield the rules in, the text
\* after the rename loops is the text one fixed order gives, and the source
\* file the run writes is that text after the casing pass.
C8_OrderIndependent ==
    /\ pc = "idparams" => modified = Renamed(content, errorFieldMappings)
    /\ pc = "generate" =>
          srcFile = replaceIDParams(Renamed(content, errorFieldMappings))

\* The error loop over two rules has applied one of them, not the one the
\* fixed order starts with, and the text has changed.
C8_Witness ==
    /\ pc = "errors"
    /\ Cardinality(DOMAIN errorFieldMappings) = 2
    /\ Len(visited) = 1
    /\ visited[1] # FixedOrder(errorFieldMappings)[1]
    /\ modified # content

\* An identifier s[a..b] that starts with a lowercase letter, holds letters
\* only and ends with "Id".
IsIdParam(s, a, b) ==
    /\ b - a >= 2
    /\ s[a] \in Lower
    /\ \A k \in a..b : s[k] \in Letter
    /\ s[b - 1] = "I"
    /\ s[b] = "d"

IdParams(s) == {a \in IdentStarts(s) : IsIdParam(s, a, RunEnd(s, a))}

\* C9: replaceIDParams rewrites every identifier that starts with a
\* lowercase letter, continues with letters only and ends with "Id" to the
\* same prefix followed by "ID", wherever it stands in the text.
C9_AllIdParamsRewritten ==
    pc = "returned" =>
        /\ Len(modified) = Len(content)
        /\ \A a \in IdParams(content) :
              SubSeq(modified, a, RunEnd(content, a)) =
                 SubSeq(content, a, RunEnd(content, a) - 2) \o <<"I", "D">>

\* Two parameters separated by a comma are both rewritten.
C9_Witness ==
    /\ pc = "returned"
    /\ content = <<"c","I","d",",","c","I","d">>
    /\ modified = <<"c","I","D",",","c","I","D">>

\* C10: replaceIDParams changes nothing but the final "d" of the
\* identifiers it matches: every other identifier (ending in "ID",
\* starting with an uppercase letter, the bare "id", "Id", "ID", "Id" not
\* at the end) and every other character is kept, and the length of the
\* text is kept.
C10_OnlyFinalD ==
    pc = "returned" =>
        /\ Len(modified) = Len(content)
        /\ \A k \in 1..Len(content) :
              modified[k] # content[k] =>
                 /\ content[k] = "d"
                 /\ modified[k] = "D"
                 /\ \E a \in IdParams(content) : RunEnd(content, a) = k
        /\ \A a \in IdentStarts(content) \ IdParams(content) :
              SubSeq(modified, a, RunEnd(content, a)) =
                 SubSeq(content, a, RunEnd(content, a))

\* A text with a rewritten parameter beside "IdId", which starts with an
\* uppercase letter and is kept.
C10_Witness ==
    /\ pc = "returned"
    /\ content = <<"I","d","I","d"," ","c","I","d">>
    /\ modified = <<"I","d","I","d"," ","c","I","D">>

\* The line of the table for one kind name and the name of its status
\* constant.
TableLine(name, const) ==
    <<"\t", "{", "\"">> \o name \o <<"\"", ",", " ">>
      \o <<"h","t","t","p",".","S","t","a","t","u","s">> \o const
      \o <<"}", ",", "\n">>

\* C11: the artifact a run writes holds the generated-file marker, the
\* package declaration, the ErrorFieldMapping type and the table opening,
\* then exactly one line per element of the mapping list, in the order of
\* the list, then the closing brace; for the tokens 500, 404, 400 the
\* table is the lines of 400, 404, 500 in that order.
C11_ArtifactTable ==
    pc \in {"summary", "done"} =>
        /\ Len(mapFile.header) = 10
        /\ mapFile.header[1] = "// Code generated by postprocess. DO NOT EDIT.\n\n"
        /\ mapFile.header[2] = "package payjpv2\n\n"
        /\ mapFile.header[5] = "type ErrorFieldMapping struct {\n"
        /\ mapFile.header[10] = "var ErrorFieldMappings = []ErrorFieldMapping{\n"
        /\ mapFile.footer = "}\n"
        /\ Len(mapFile.entries) = Len(errorMappings)
        /\ \A k \in 1..Len(errorMappings) :
              mapFile.entries[k] =
                 TableLine(errorMappings[k].FieldName,
                           httpStatusName(errorMappings[k].StatusCode))
        /\ content = TableText =>
              mapFile.entries =
                 << TableLine(<<"B","a","d","R","e","q","u","e","s","t">>, <<"B","a","d","R","e","q","u","e","s","t">>),
                    TableLine(<<"N","o","t","F","o","u","n","d">>, <<"N","o","t","F","o","u","n","d">>),
                    TableLine(<<"I","n","t","e","r","n","a","l","S","e","r","v","e","r","E","r","r","o","r">>, <<"I","n","t","e","r","n","a","l","S","e","r","v","e","r","E","r","r","o","r">>) >>

\* A run on the three tokens has written a table of three lines.
C11_Witness ==
    /\ pc = "done"
    /\ content = TableText
    /\ Len(mapFile.entries) = 3
    /\ mapFile.entries[3] = TableLine(<<"I","n","t","e","r","n","a","l","S","e","r","v","e","r","E","r","r","o","r">>, <<"I","n","t","e","r","n","a","l","S","e","r","v","e","r","E","r","r","o","r">>)

\* C12: the run on "ApplicationproblemJSON400 *ErrorResponse" writes the
\* source text "BadRequest *ErrorResponse" and an artifact whose table is
\* the single line {"BadRequest", http.StatusBadRequest}.
C12_EndToEnd ==
    (pc \in {"summary", "done"} /\ content = EndToEndText) =>
        /\ srcFile = <<"B","a","d","R","e","q","u","e","s","t"," ","*","E","r","r","o","r","R","e","s","p","o","n","s","e">>
        /\ mapFile.entries = << <<"\t","{","\"","B","a","d","R","e","q","u","e","s","t","\"",","," ","h","t","t","p",".","S","t","a","t","u","s","B","a","d","R","e","q","u","e","s","t","}",",","\n">> >>

\* The run on that text has finished with a changed source file.
C12_Witness ==
    /\ pc = "done"
    /\ content = EndToEndText
    /\ srcFile # content
    /\ Len(mapFile.entries) = 1

\* The steps of main that can follow one another.
StepEdges ==
    { <<"read", "extract">>, <<"extract", "success">>, <<"success", "errors">>,
      <<"success", "idparams">>, <<"errors", "idparams">>, <<"idparams", "write">>,
      <<"write", "generate">>, <<"generate", "summary">>, <<"summary", "done">>,
      <<"read", "exit">>, <<"write", "exit">>, <<"generate", "exit">>,
      <<"done", "read">> }

\* C13: the steps of a run follow one another in the order read, extract,
\* success renames, error renames, casing pass, source write, artifact
\* write, summary; the mappings are extracted from the text as read, before
\* any rename; the source file changes only in the write step, the artifact
\* only in the generate step and only when the source write succeeded, and
\* the summary is produced only after both files are written and changes
\* neither.
C13_StepOrder ==
    [][ /\ pc' # pc => <<pc, pc'>> \in StepEdges
        /\ (pc = "read" /\ pc' = "extract") => content' = srcFile
        /\ pc = "extract" =>
              /\ errorFieldMappings' = extractErrorFieldMappings(srcFile)
              /\ modified' = srcFile
        /\ (errorFieldMappings' # errorFieldMappings /\ pc # "extract") =>
              (pc = "done" /\ errorFieldMappings' = EmptyMap)
        /\ (modified' # modified /\ pc \notin {"extract", "done"}) =>
              pc \in {"success", "errors", "idparams"}
        /\ srcFile' # srcFile => pc = "write"
        /\ mapFile' # mapFile => (pc = "generate" /\ srcFile = modified)
        /\ pc = "summary" =>
              /\ srcFile = modified
              /\ mapFile.footer = "}\n"
              /\ Len(mapFile.entries) = Len(errorMappings)
              /\ srcFile' = srcFile
              /\ mapFile' = mapFile
        /\ (summary' # summary /\ pc # "summary") => pc = "done"
      ]_vars

\* A first run that renamed something has written both files and printed
\* the summary of its changes.
C13_Witness ==
    /\ pc = "done"
    /\ ~previous.ran
    /\ srcFile = modified
    /\ srcFile # content
    /\ Len(mapFile.entries) > 0
    /\ ~summary.noChanges

\* C14: a run that fails exits with a non-zero status and has not written
\* one output without the other: no failed run, which never completes the
\* artifact, leaves the rewritten text in the source file.
C14_NoPartialSuccess ==
    pc = "exit" =>
        /\ exitCode # 0
        /\ modified # content => srcFile # modified

UnparsableTokens(s) == MarkerTokens(s) \ ParsableTokens(s)

\* C15: in a run, a marker token whose digits do not parse gets no rename
\* rule and no mapping entry while every other token of the text gets
\* both; the only failures of a run are those of reading and writing the
\* files; the run on a text with such a token beside the token of 400
\* renames the latter and writes the one-line table.
C15_MalformedSkipped ==
    /\ pc \in {"success", "errors", "idparams", "write", "generate", "summary", "done"} =>
          DOMAIN errorFieldMappings = ParsableTokens(content)
    /\ pc \in {"summary", "done"} =>
          /\ Len(errorMappings) = Cardinality(ParsableTokens(content))
          /\ Len(mapFile.entries) = Len(errorMappings)
    /\ pc = "exit" =>
          stdout[Len(stdout)] \in {"Error reading file", "Error writing file",
                                   "Error generating error_mappings.gen.go"}
    /\ (pc = "done" /\ content = MalformedText) =>
          /\ srcFile = <<"A","p","p","l","i","c","a","t","i","o","n","p","r","o","b","l","e","m","J","S","O","N","9","9","9","9","9","9","9","9","9","9","9","9","9","9","9","9","9","9","9","9"," ","B","a","d","R","e","q","u","e","s","t"," ","T">>
          /\ mapFile.entries = << TableLine(<<"B","a","d","R","e","q","u","e","s","t">>, <<"B","a","d","R","e","q","u","e","s","t">>) >>

\* A run on a text with an unparsable token has finished and renamed the
\* other token.
C15_Witness ==
    /\ pc = "done"
    /\ UnparsableTokens(content) # {}
    /\ DOMAIN errorFieldMappings # {}
    /\ srcFile # content
    /\ exitCode = 0

\* The number of places of a text at which a name stands.
Occurrences(s, name) == Cardinality({i \in 1..Len(s) : HasPrefixAt(s, name, i)})

\* The report lines of the rules of a map whose old name occurs in a text.
ReportedRules(s, mappings) ==
    {[old |-> old, new |-> mappings[old], count |-> Occurrences(s, old)] :
        old \in {o \in DOMAIN mappings : Occurrences(s, o) > 0}}

IdText(s, a) == SubSeq(s, a, RunEnd(s, a))

\* C16: the summary of a finished run says "no changes" and nothing else
\* when the text read and the rewritten text are equal; otherwise it has
\* one line per success rule and per error rule whose old name occurs in
\* the text read, with the number of occurrences, no line for the other
\* rules, the number of casing matches in the text read and one line per
\* matched identifier with its new spelling and its count.
C16_Summary ==
    pc = "done" =>
        IF content = modified
        THEN summary = [noChanges |-> TRUE, success |-> {}, errors |-> {},
                        idTotal |-> 0, ids |-> {}]
        ELSE /\ ~summary.noChanges
             /\ summary.success = ReportedRules(content, fieldMappings)
             /\ summary.errors = ReportedRules(content, errorFieldMappings)
             /\ summary.idTotal = Cardinality(IdParams(content))
             /\ summary.ids =
                   {[id    |-> IdText(content, a),
                     newID |-> SubSeq(content, a, RunEnd(content, a) - 1) \o <<"D">>,
                     count |-> Cardinality({b \in IdParams(content) :
                                               IdText(content, b) = IdText(content, a)})] :
                       a \in IdParams(content)}

\* A finished run whose summary has an error rule line and a casing line
\* but no line for the success rules, whose names do not occur.
C16_Witness ==
    /\ pc = "done"
    /\ ~summary.noChanges
    /\ summary.success = {}
    /\ summary.errors # {}
    /\ summary.idTotal > 0

\* C17: the mapping list of a run, and the table written from it, has no
\* two entries with the same status code or the same kind name.
C17_OneEntryPerCode ==
    pc \in {"summary", "done"} =>
        \A i, j \in 1..Len(errorMappings) :
            i < j =>
               /\ errorMappings[i].StatusCode # errorMappings[j].StatusCode
               /\ errorMappings[i].FieldName # errorMappings[j].FieldName
               /\ mapFile.entries[i] # mapFile.entries[j]

\* C18: a second run, which reads the source file the first run wrote,
\* ends with both output files as the first run left them.
C18_Idempotent ==
    (pc = "done" /\ previous.ran) =>
        /\ srcFile = previous.src
        /\ mapFile = previous.map

\* The caller passed no option that fails.
OptionsApply == \A k \in 1..Len(clientOpts) : clientOpts[k] # WithBaseURL(FALSE)

\* C19: NewPayjpClientWithResponses returns no client and the error "API
\* key cannot be empty" for the empty key, no client and an error that
\* holds "invalid API key format" for a non-empty key that does not start
\* with "sk_", and a client for every key that starts with "sk_".
C19_KeyValidation ==
    pc \in {"client", "returned"} =>
        /\ apiKey = <<>> =>
              /\ ~client.created
              /\ clientErr = <<"A","P","I"," ","k","e","y"," ","c","a","n","n","o","t"," ","b","e"," ","e","m","p","t","y">>
        /\ (apiKey # <<>> /\ ~HasPrefixAt(apiKey, <<"s","k","_">>, 1)) =>
              /\ ~client.created
              /\ Occurrences(clientErr, <<"i","n","v","a","l","i","d"," ","A","P","I"," ","k","e","y"," ","f","o","r","m","a","t">>) > 0
        /\ (HasPrefixAt(apiKey, <<"s","k","_">>, 1) /\ OptionsApply) =>
              /\ client.created
              /\ clientErr = <<>>

\* The caller passed no option that sets a header.
NoHeaderOption == \A k \in 1..Len(clientOpts) : clientOpts[k].kind # "RequestEditorFn"

Contains(s, sub) == \E i \in 1..Len(s) : HasPrefixAt(s, sub, i)

\* C20: when the caller passed no header-setting option, every request
\* sent through the client, the first and the later ones, has the
\* Authorization header "Bearer " followed by the key, a User-Agent that
\* starts with "payjp/payjpv2 GoBindings/" and a non-empty
\* X-Payjp-Client-User-Agent holding the JSON fields bindings_version,
\* lang "go", lang_version, publisher "payjp" and uname.
C20_DefaultHeaders ==
    NoHeaderOption =>
        \A k \in 1..Len(sent) :
            /\ sent[k]["Authorization"] = <<"B","e","a","r","e","r"," ">> \o apiKey
            /\ HasPrefixAt(sent[k]["User-Agent"], <<"p","a","y","j","p","/","p","a","y","j","p","v","2"," ","G","o","B","i","n","d","i","n","g","s","/">>, 1)
            /\ sent[k]["X-Payjp-Client-User-Agent"] # <<>>
            /\ Contains(sent[k]["X-Payjp-Client-User-Agent"], <<"\"","b","i","n","d","i","n","g","s","_","v","e","r","s","i","o","n","\"">>)
            /\ Contains(sent[k]["X-Payjp-Client-User-Agent"], <<"\"","l","a","n","g","\"",":","\"","g","o","\"">>)
            /\ Contains(sent[k]["X-Payjp-Client-User-Agent"], <<"\"","l","a","n","g","_","v","e","r","s","i","o","n","\"">>)
            /\ Contains(sent[k]["X-Payjp-Client-User-Agent"], <<"\"","p","u","b","l","i","s","h","e","r","\"",":","\"","p","a","y","j","p","\"">>)
            /\ Contains(sent[k]["X-Payjp-Client-User-Agent"], <<"\"","u","n","a","m","e","\"">>)

\* Two requests were sent through a client made with the test transport
\* only, the second with an idempotency key.
C20_Witness ==
    /\ NoHeaderOption
    /\ clientOpts = <<WithHTTPClient>>
    /\ apiKey = <<"s","k","_","t","e","s","t","_","e","x","a","m","p","l","e">>
    /\ Len(sent) = 2
    /\ sent[2]["Idempotency-Key"] # <<>>
    /\ sent[2]["Authorization"] = <<"B","e","a","r","e","r"," ","s","k","_","t","e","s","t","_","e","x","a","m","p","l","e">>

\* The reference to a status that generateErrorMappingsFile writes into an
\* entry of the table, after "http.": "Status" and the kind name.
StatusReference(name) == <<"S","t","a","t","u","s">> \o name

\* C25: for every status code that has a named constant in net/http, the
\* reference "http.Status" + httpStatusName(code) that the generated table
\* holds is exactly the name of that constant.
C25_NamedConstant ==
    (pc = "returned" /\ StatusConstant(httpCode) # <<>>) =>
        StatusReference(kindName) = StatusConstant(httpCode)

\* Reads the input from position i beside the output from position j: a
\* character is either kept, or it starts an occurrence of old where the
\* output holds new. The result tells whether the whole output is
\* accounted for that way and at which positions of the input an
\* occurrence was replaced.
RECURSIVE Replaced(_, _, _, _, _, _, _)
Replaced(in, out, old, new, i, j, at) ==
    IF i > Len(in) THEN [ok |-> j > Len(out), at |-> at]
    ELSE LET kept == IF j <= Len(out) /\ in[i] = out[j]
                     THEN Replaced(in, out, old, new, i + 1, j + 1, at)
                     ELSE [ok |-> FALSE, at |-> at]
         IN  IF kept.ok THEN kept
             ELSE IF HasPrefixAt(in, old, i) /\ HasPrefixAt(out, new, j)
             THEN Replaced(in, out, old, new, i + Len(old), j + Len(new),
                           at \cup {i})
             ELSE [ok |-> FALSE, at |-> at]

\* C26: replaceFieldName changes nothing but occurrences of oldName: the
\* result is the input with some occurrences of oldName replaced by
\* newName and every other character kept in order (so the type text
\* after a declaration and the text around a member access stay), every
\* replaced occurrence stands in one of the three contexts, and oldName
\* as a bare word before ':' or '=' or at the end of the text stays.
C26_OnlyOldNameChanged ==
    pc = "returned" =>
        LET r == Replaced(content, modified, rule[1], rule[2], 1, 1, {})
        IN  /\ r.ok
            /\ \A i \in r.at : InContext(content, rule[1], i)
            /\ \A i \in 1..Len(content) :
                  (/\ HasPrefixAt(content, rule[1], i)
                   /\ \/ i + Len(rule[1]) > Len(content)
                      \/ content[i + Len(rule[1])] \in {":", "="}
                   /\ i = 1 \/ content[i - 1] # ".") => i \notin r.at

\* "JSON200: JSON200 *T" became "JSON200: Result *T": the bare word before
\* ':' stayed and the declaration was renamed with its type text kept.
C26_Witness ==
    /\ pc = "returned"
    /\ rule[1] = JSON200
    /\ content = JSON200 \o <<":", " ">> \o JSON200 \o <<" ", "*", "T">>
    /\ modified = JSON200 \o <<":", " ">> \o Result \o <<" ", "*", "T">>

\* The key in force among the keys passed with a request: the last.
KeyGiven(keys) == keys[Len(keys)]

\* C21: the idempotency key is set per request: every request sent with
\* WithIdempotencyKey(k) carries Idempotency-Key = k, whatever the earlier
\* requests of the client were given, and it carries no key that an
\* earlier request was given and that differs from its own.
C21_PerRequestKey ==
    \A k \in 1..Len(sent) :
        given[k] # <<>> =>
            /\ sent[k]["Idempotency-Key"] = KeyGiven(given[k])
            /\ \A j \in 1..(k - 1) :
                  (given[j] # <<>> /\ KeyGiven(given[j]) # KeyGiven(given[k])) =>
                      sent[k]["Idempotency-Key"] # KeyGiven(given[j])

\* Two requests on one client, the first with "first-idempotency-key" and
\* the second with "second-idempotency-key", which the second carries.
C21_Witness ==
    /\ Len(sent) = 2
    /\ clientOpts = <<WithHTTPClient>>
    /\ given[1] = <<<<"f","i","r","s","t","-","i","d","e","m","p","o","t","e","n","c","y","-","k","e","y">>>>
    /\ given[2] = <<<<"s","e","c","o","n","d","-","i","d","e","m","p","o","t","e","n","c","y","-","k","e","y">>>>
    /\ sent[1]["Idempotency-Key"] = <<"f","i","r","s","t","-","i","d","e","m","p","o","t","e","n","c","y","-","k","e","y">>
    /\ sent[2]["Idempotency-Key"] = <<"s","e","c","o","n","d","-","i","d","e","m","p","o","t","e","n","c","y","-","k","e","y">>

\* The entries of ErrorFieldMappings whose field the struct holds non-nil.
Populated(r) ==
    {k \in 1..Len(ErrorFieldMappings) :
        /\ ErrorFieldMappings[k].FieldName \in DOMAIN r.fields
        /\ r.fields[ErrorFieldMappings[k].FieldName] # Nil}

StatusOf(r) == IF r.HTTPResponse = Nil THEN 0 ELSE r.HTTPResponse.StatusCode

\* C22: ParseAPIError returns nil for nil, for an input that is no struct,
\* and for a struct without a populated error field whose HTTP status is
\* below 400; for a struct with a populated field of the table it returns
\* an APIError with the status code the table pairs with the first
\* populated field in table order and with that field's value as Body.
C22_ParseAPIError ==
    pc \in {"Extract", "returned", "err", "usage", "exit"} =>
        /\ resp = Nil => apiError = Nil
        /\ resp.kind # "struct" => apiError = Nil
        /\ (resp.kind = "struct" /\ Populated(resp) = {} /\ StatusOf(resp) < 400) =>
              apiError = Nil
        /\ (resp.kind = "struct" /\ Populated(resp) # {}) =>
              LET first == CHOOSE k \in Populated(resp) : \A j \in Populated(resp) : k <= j
                  ef == ErrorFieldMappings[first]
              IN  /\ apiError # Nil
                  /\ apiError.StatusCode = ef.StatusCode
                  /\ apiError.Body = resp.fields[ef.FieldName]

\* A 404 response with BadRequest and NotFound both populated gave the
\* error of the first of them in the table, status 400.
C22_Witness ==
    /\ pc = "Extract"
    /\ resp.kind = "struct"
    /\ StatusOf(resp) = 404
    /\ Populated(resp) = {1, 2}
    /\ apiError # Nil
    /\ apiError.StatusCode = 400
    /\ apiError.Body = resp.fields[ErrorFieldMappings[1].FieldName]

\* C23: Extract(resp, err) returns err itself when err is non-nil, the
\* *APIError of ParseAPIError(resp) when err is nil and that is non-nil,
\* and a nil error when both are nil; the response returned is resp.
C23_Extract ==
    pc \in {"returned", "err", "usage", "exit"} =>
        /\ extracted.resp = resp
        /\ transportErr # Nil => extracted.err = transportErr
        /\ (transportErr = Nil /\ apiError # Nil) => extracted.err = apiError
        /\ (transportErr = Nil /\ apiError = Nil) => extracted.err = Nil

\* The request failed in the transport while the response struct also
\* holds an API error: Extract returned the transport's error.
C23_Witness ==
    /\ pc = "err"
    /\ transportErr # Nil
    /\ apiError # Nil
    /\ extracted.err = transportErr
    /\ extracted.resp = resp

\* C24: Error() returns "PAY.JP API error <status>: <title> - <detail>"
\* when Body is set and Detail is a non-empty string, "PAY.JP API error
\* <status>: <title>" when Body is set and Detail is nil or empty, and
\* "PAY.JP API error <status>" when Body is nil; IsNotFound, IsBadRequest
\* and IsUnprocessableEntity hold exactly for the status codes 404, 400
\* and 422.
C24_ErrorText ==
    (pc \in {"usage", "exit"} /\ extracted.err.kind = "APIError") =>
        LET e == extracted.err
            head == <<"P","A","Y",".","J","P"," ","A","P","I"," ","e","r","r","o","r"," ">>
                        \o Itoa(e.StatusCode)
        IN  /\ (e.Body # Nil /\ e.Body.Detail # Nil /\ e.Body.Detail.s # <<>>) =>
                  message = head \o <<":", " ">> \o e.Body.Title \o <<" ", "-", " ">>
                                 \o e.Body.Detail.s
            /\ (e.Body # Nil /\ (e.Body.Detail = Nil \/ e.Body.Detail.s = <<>>)) =>
                  message = head \o <<":", " ">> \o e.Body.Title
            /\ e.Body = Nil => message = head
            /\ (e.StatusCode = 500 /\ e.Body = Nil) => message = <<"P","A","Y",".","J","P"," ","A","P","I"," ","e","r","r","o","r"," ","5","0","0">>
            /\ (e.StatusCode = 400 /\ e.Body # Nil /\ e.Body.Status = 400) => message = <<"P","A","Y",".","J","P"," ","A","P","I"," ","e","r","r","o","r"," ","4","0","0",":"," ","B","a","d"," ","R","e","q","u","e","s","t">>
            /\ IsNotFound(e) <=> e.StatusCode = 404
            /\ IsBadRequest(e) <=> e.StatusCode = 400
            /\ IsUnprocessableEntity(e) <=> e.StatusCode = 422

\* The error of a populated NotFound field with a detail reads
\* "PAY.JP API error 404: Not Found - Customer not found".
C24_Witness ==
    /\ pc = "usage"
    /\ extracted.err.kind = "APIError"
    /\ IsNotFound(extracted.err)
    /\ message = <<"P","A","Y",".","J","P"," ","A","P","I"," ","e","r","r","o","r"," ","4","0","4",":"," ","N","o","t"," ","F","o","u","n","d"," ","-"," ","C","u","s","t","o","m","e","r"," ","n","o","t"," ","f","o","u","n","d">>

\* C27: every *APIError that ParseAPIError or Extract returns has a
\* non-nil Body, so the usage example's read of apiErr.Body.Title never
\* panics, also when the HTTP status is 400 or above and no field of the
\* table is populated.
C27_BodyNeverNil ==
    /\ apiError # Nil => apiError.Body # Nil
    /\ extracted.err.kind = "APIError" => extracted.err.Body # Nil
    /\ logged # <<"p","a","n","i","c">>

\* A null type is left somewhere in a document: an "anyOf" array with an
\* element whose type is "null", or a "type" member that is an array
\* holding "null", at any depth.
RECURSIVE NullTypeLeft(_)
NullTypeLeft(v) ==
    IF v.t = "object"
    THEN \E key \in DOMAIN v.m :
            \/ /\ key = "anyOf"
               /\ v.m[key].t = "array"
               /\ \E k \in 1..Len(v.m[key].a) : IsNullType(v.m[key].a[k])
            \/ /\ key = "type"
               /\ v.m[key].t = "array"
               /\ \E k \in 1..Len(v.m[key].a) : v.m[key].a[k] = JSONStr("null")
            \/ NullTypeLeft(v.m[key])
    ELSE IF v.t = "array"
    THEN \E k \in 1..Len(v.a) : NullTypeLeft(v.a[k])
    ELSE FALSE

\* C28: after fixNullTypes no null type is left anywhere in the document,
\* whatever order the maps were ranged in.
C28_NoNullLeft ==
    pc = "returned" => ~NullTypeLeft(converted)

=============================================================================
